---- MODULE Spec2Model ----
(***************************************************************************)
(* A model of the HBC_Records document viewer (the Home component): the    *)
(* raster render effect, the Region Index built from a page's line boxes,  *)
(* the highlight synchronizer driven by pointer events, and the suggestion *)
(* requests to the backend; and of the script that ingests a document.     *)
(*                                                                         *)
(* Conventions.  A JavaScript string that the code takes apart (a page     *)
(* key, a uid, a typed text) is a sequence of one-character strings.  A    *)
(* nullable value is a sequence of length at most one: <<>> is null (or    *)
(* the empty string), <<v>> is the value v.  A normalized coordinate in    *)
(* [0,1] is an integer number of 1/Grid units; the pages and coordinates of *)
(* the model are chosen so that every division of the normalizer is exact. *)
(* The zoom factor is counted in 1/10000.                                  *)
(*                                                                         *)
(* Thirteen specifications share the actions.  Spec is the viewer with its *)
(* pointer events over the index that render attempts build; SpecRender is *)
(* the render pipeline with every outcome of its asynchronous steps;       *)
(* SpecScroll is the render pipeline with the scroller moved between       *)
(* renders; SpecPages is the viewer's pointer and transcript events while  *)
(* pages are selected and rendered one after the other; SpecDrag is the    *)
(* drag-pan of the zoomed page; SpecSugg is the suggestion handlers with   *)
(* the backend from the page load on; SpecSession is the suggestion form,  *)
(* submit and vote once the page's suggestions are fetched; SpecNames is a *)
(* session in which the author's profile is renamed; SpecGeometry is the   *)
(* normalization loop and pickBoxAt on page objects of every shape;        *)
(* SpecRank is the suggestion panel's sort modes over vote tables;         *)
(* SpecBoard is the leaderboard over vote tables up to and beyond the      *)
(* fetch limit; SpecRecovery is the document load with failing fetches;    *)
(* SpecIngest is the ingest script that fills the documents and lines      *)
(* tables, run on documents of one to several chunks of lines.             *)
(***************************************************************************)
EXTENDS Integers, Sequences, FiniteSets, TLC

\* ---------------------------------------------------------------- values

Null == <<>>

Some(v) == <<v>>

Min(a, b) == IF a < b THEN a ELSE b

Max(a, b) == IF a > b THEN a ELSE b

Range(s) == { s[i] : i \in 1..Len(s) }

\* Normalized coordinates are counted in units of 1/Grid.
Grid == 100 * 100

\* ---------------------------------------------------------------- bounds

\* Runs of the render effect (render attempts) in one behaviour.
MaxAttempts == 2

\* ---------------------------------------------------- page keys and uids

Digits == <<"0", "1", "2", "3", "4", "5", "6", "7", "8", "9">>

IsDigit(c) == c \in Range(Digits)

DigitVal(c) == CHOOSE d \in 0..9 : Digits[d + 1] = c

RECURSIVE parseInt(_)
\* parseInt(m[1], 10) on a non-empty run of decimal digits.
parseInt(ds) ==
  IF ds = <<>> THEN 0
  ELSE 10 * parseInt(SubSeq(ds, 1, Len(ds) - 1)) + DigitVal(ds[Len(ds)])

RECURSIVE ToDigits(_)
\* The decimal digits of a natural number, as a template literal prints it.
ToDigits(n) ==
  IF n < 10 THEN <<Digits[n + 1]>>
  ELSE ToDigits(n \div 10) \o <<Digits[(n % 10) + 1]>>

PageTag == <<"_", "p", "a", "g", "e", "_">>

\* pageKey.match(/_page_(\d+)$/): the page number, or null.
pageKeyToNumber(k) ==
  LET n == Len(k)
      at == { i \in 1..n : /\ i + 6 <= n
                           /\ SubSeq(k, i, i + 5) = PageTag
                           /\ \A j \in (i + 6)..n : IsDigit(k[j]) }
  IN IF at = {} THEN Null
     ELSE Some(parseInt(SubSeq(k, (CHOOSE i \in at : TRUE) + 6, n)))

\* `pdf_only_page_${n}`
PdfOnlyKey(n) == <<"p", "d", "f", "_", "o", "n", "l", "y">> \o PageTag \o ToDigits(n)

\* UidOf without the paragraph index.
UidOf_Mut(pIdx, lIdx) == ToDigits(lIdx)

\* `${pIdx}-${lIdx}`
UidOf(pIdx, lIdx) == ToDigits(pIdx) \o <<"-">> \o ToDigits(lIdx)

\* ------------------------------------------------------------ the document

\* A line of the JSON: its text and its pixel bbox; a coordinate that is not a
\* finite number is Null.
Line(t, x1, y1, x2, y2) == [transcription |-> t, bbox |-> <<x1, y1, x2, y2>>]

K1 == <<"d">> \o PageTag \o <<"1">>

K2 == <<"d">> \o PageTag \o <<"2">>

KCover == <<"c", "o", "v", "e", "r">>

\* Page 1: a line, and in a second paragraph a line (with reversed corners)
\* inside the first one's box.  Page 2: one line, and in a second paragraph a
\* line of blank text whose bbox holds a non-finite coordinate.  The cover
\* has no page number and no lines.
Page1 ==
  [width |-> Some(100), height |-> Some(100),
   paragraphs |-> << <<Line(<<"a">>, Some(10), Some(10), Some(60), Some(20))>>,
                     <<Line(<<"b">>, Some(40), Some(20), Some(20), Some(10))>> >>]

Page2 ==
  [width |-> Some(100), height |-> Some(100),
   paragraphs |-> << <<Line(<<"d">>, Some(20), Some(10), Some(40), Some(30))>>,
                     <<Line(<<" ">>, Null, Some(70), Some(60), Some(80))>> >>]

PageCover == [width |-> Some(100), height |-> Some(100), paragraphs |-> <<>>]

\* The JSON document, in the order of its keys.
DocKeys == <<KCover, K1, K2>>

DocPage(k) == CASE k = K1 -> Page1 [] k = K2 -> Page2 [] OTHER -> PageCover

\* doc[pageKey] is defined
HasPage(k) == k \in Range(DocKeys)

\* pdf.numPages of the PDFs the model loads
NumPagesChoices == {1, 3}

\* ------------------------------------------------- the Geometry Normalizer

RECURSIVE FlattenFrom(_, _, _)
\* The lines of paragraphs pIdx.. of a page, each with its uid, in order.
FlattenFrom(pars, pIdx, lIdx) ==
  IF pIdx > Len(pars) THEN <<>>
  ELSE IF lIdx > Len(pars[pIdx]) THEN FlattenFrom(pars, pIdx + 1, 1)
  ELSE <<[uid |-> UidOf(pIdx - 1, lIdx - 1),
          transcription |-> pars[pIdx][lIdx].transcription,
          bbox |-> pars[pIdx][lIdx].bbox]>>
       \o FlattenFrom(pars, pIdx, lIdx + 1)

getAllLinesForPage(p) == FlattenFrom(p.paragraphs, 1, 1)

\* The rejection thresholds of the normalization loop, in thousandths.
MaxLineH == 200

MaxLineArea == 250

WideW == 980

WideH == 500

FullW == 950

FullH == 950

MaxExtent == 999

\* Clamp01 without the clamp.
Clamp01_Mut(v) == v

\* Math.min(1, Math.max(0, v))
Clamp01(v) == Min(Grid, Max(0, v))

\* Ratio without the division by the page dimension.
Ratio_Mut(p, dim) == p

\* p / dim, in units of 1/Grid
Ratio(p, dim) == (p * Grid) \div dim

\* One pass of the normalization loop for a line: the box it adds to the index,
\* or Null when the loop skips the line.
NormalizeLine(l, pageW, pageH) ==
  IF \E v \in Range(l.bbox) \cup {pageW, pageH} : v = Null THEN Null
  ELSE IF pageW[1] <= 0 \/ pageH[1] <= 0 THEN Null
  ELSE
    LET cx1 == Clamp01(Ratio(l.bbox[1][1], pageW[1]))
        cy1 == Clamp01(Ratio(l.bbox[2][1], pageH[1]))
        cx2 == Clamp01(Ratio(l.bbox[3][1], pageW[1]))
        cy2 == Clamp01(Ratio(l.bbox[4][1], pageH[1]))
        x1n == IF cx2 < cx1 THEN cx2 ELSE cx1
        x2n == IF cx2 < cx1 THEN cx1 ELSE cx2
        y1n == IF cy2 < cy1 THEN cy2 ELSE cy1
        y2n == IF cy2 < cy1 THEN cy1 ELSE cy2
        w == Max(0, x2n - x1n)
        h == Max(0, y2n - y1n)
        area == w * h
    IN IF w <= 0 \/ h <= 0 THEN Null
       ELSE IF h * 1000 > MaxLineH * Grid THEN Null
       ELSE IF area > MaxLineArea * ((Grid * Grid) \div 1000) THEN Null
       ELSE IF w * 1000 > WideW * Grid /\ h * 1000 > WideH * Grid THEN Null
       ELSE IF w * 1000 > FullW * Grid /\ h * 1000 > FullH * Grid THEN Null
       ELSE IF w * 1000 > MaxExtent * Grid \/ h * 1000 > MaxExtent * Grid THEN Null
       ELSE Some([uid |-> l.uid, x |-> x1n, y |-> y1n, w |-> w, h |-> h,
                  area |-> area])

RECURSIVE NormalizeAll(_, _)
\* nextHitBoxes before the sort: the boxes the loop pushes, in line order.
NormalizeAll(lines, p) ==
  IF lines = <<>> THEN <<>>
  ELSE NormalizeLine(Head(lines), p.width, p.height) \o NormalizeAll(Tail(lines), p)

\* InsertByArea without the comparison of areas.
InsertByArea_Mut(sorted, b) == Append(sorted, b)

\* One step of a stable insertion of b into a sequence sorted by area.
InsertByArea(sorted, b) ==
  LET k == Cardinality({ i \in 1..Len(sorted) : sorted[i].area <= b.area })
  IN SubSeq(sorted, 1, k) \o <<b>> \o SubSeq(sorted, k + 1, Len(sorted))

RECURSIVE SortByArea(_)
\* nextHitBoxes.sort((a, b) => a.area - b.area): ascending, stable.
SortByArea(bs) ==
  IF bs = <<>> THEN <<>>
  ELSE InsertByArea(SortByArea(SubSeq(bs, 1, Len(bs) - 1)), bs[Len(bs)])

\* nextHitBoxes made to start from the index in place.
nextHitBoxes_Mut(prev) == prev

\* const nextHitBoxes = []: the array the loop pushes to starts empty, whatever
\* index prev is in place.
nextHitBoxes(prev) == <<>>

\* The index the loop builds for page p while the index prev is in place.
BuildIndex(prev, p) ==
  SortByArea(nextHitBoxes(prev) \o NormalizeAll(getAllLinesForPage(p), p))

\* The { x, y, w, h } the loop stores under a uid.
BoxOf(b) == [x |-> b.x, y |-> b.y, w |-> b.w, h |-> b.h]

\* boxByUidRef.current after the loop: a later line with the same uid overwrites.
BoxLookup(bs) ==
  [u \in { bs[i].uid : i \in 1..Len(bs) } |->
     BoxOf(bs[CHOOSE i \in 1..Len(bs) :
                 bs[i].uid = u /\ \A j \in (i + 1)..Len(bs) : bs[j].uid # u])]

\* ResetLookup that keeps the lookup in place.
ResetLookup_Mut(prev) == prev

\* boxByUidRef.current = {}
ResetLookup(prev) == <<>>

\* boxByUidRef.current after the reset and the loop for page p.
BuildLookup(prev, p) ==
  LET new == BoxLookup(NormalizeAll(getAllLinesForPage(p), p))
      old == ResetLookup(prev)
  IN [u \in DOMAIN old \cup DOMAIN new |-> IF u \in DOMAIN new THEN new[u] ELSE old[u]]

\* The sizes above which the loop warns about a box it keeps, in thousandths.
WarnH == 80

WarnArea == 80

\* The uids the loop calls console.warn for, in a development build: the boxes
\* it keeps with h > 0.08 or area > 0.08.  A line the loop skips reaches no
\* console call; a production build makes none at all.
LargeBoxWarnings(p) ==
  LET bs == NormalizeAll(getAllLinesForPage(p), p)
  IN { bs[i].uid : i \in { j \in 1..Len(bs) :
                             \/ bs[j].h * 1000 > WarnH * Grid
                             \/ bs[j].area > WarnArea * ((Grid * Grid) \div 1000) } }

\* boxByUidRef.current[uid] ?? null
LookupBox(lookup, uid) == IF uid \in DOMAIN lookup THEN Some(lookup[uid]) ELSE Null

\* -------------------------------------------------------- the Region Index

RECURSIVE pickBoxFrom(_, _, _)
\* pickBoxAt over a given hitBoxes array: the first box containing (u, v).
pickBoxFrom(boxes, u, v) ==
  IF boxes = <<>> THEN Null
  ELSE LET b == Head(boxes)
       IN IF u >= b.x /\ u <= b.x + b.w /\ v >= b.y /\ v <= b.y + b.h
          THEN Some(b)
          ELSE pickBoxFrom(Tail(boxes), u, v)

\* ------------------------------------------------------------------ state

VARIABLES
  doc,                 \* TRUE once the JSON document is loaded (setDoc)
  pdf,                 \* Null, or Some(numPages) once the PDF is loaded
  pageKey,             \* the selected page key ("" is <<>>)
  zoom,                \* the zoom factor, in 1/10000
  activeId,            \* Null or Some(uid)
  activeSource,        \* "none" (null), "left" (the page) or "right" (the transcript)
  activeBox,           \* Null or Some(box)
  rightScrollTarget,   \* Null, or Some(uid) of the line the transcript pane was last
                       \* scrolled to centre
  hitBoxes,            \* the Region Index: boxes in ascending area
  collapseSuggestions, \* the global "hide community suggestions" flag
  collapsedUid,        \* the per-uid collapsed flags: the uids whose flag is true
  boxByUidRef,         \* boxByUidRef.current
  consoleWarn,         \* the uids the normalization loop has called console.warn for
  renderTaskRef,       \* renderTaskRef.current: Null or Some(attempt whose task it is)
  hoverRafRef,         \* hoverRafRef.current: Null or Some(frame handle)
  hoverPtRef,          \* hoverPtRef.current: Null or Some(<<u, v>>)
  isDraggingRef,       \* isDraggingRef.current
  attempts,            \* the runs of the render effect, in order
  canvas,              \* Null, or Some of the raster the canvas was last sized for
  scroll,              \* <<scrollLeft, scrollTop>> of the PDF scroller
  rafQueue,            \* the animation-frame callbacks requested and not yet run
  alerts,              \* the render attempts that showed an alert
  ptr,                 \* where the pointer is: <<"out">>, <<"page">> or <<"line", uid>>
  last,                \* the last event handled, for stating the properties: a
                       \* move with its point and whether a frame was pending, a
                       \* leave with whether a frame was pending, a click with its
                       \* point, the uid hit, whether that uid was active and
                       \* whether it was collapsed
  DOCUMENT_ID,         \* NEXT_PUBLIC_DOCUMENT_ID of the deployment: Null when unset
  user,                \* Null, or Some(id) of the signed-in user
  store,               \* the rows of the suggestions table, in insertion order
  votes,               \* the rows of suggestion_votes, in insertion order:
                       \* <<suggestion id, user id>>
  requests,            \* the requests to the backend that are in flight
  nreq,                \* the number of requests sent so far
  suggestionsByUid,    \* the fetched suggestions: uid -> rows in display order
  isLoadingSuggestions,
  usernameByUserId,    \* the cached display names: user id -> name
  messages,            \* the alerts the suggestion handlers showed
  pageObj,             \* Null, or Some(page) of a page object handed to the
                       \* normalization loop on its own
  lastPick,            \* Null, or Some(<<point, result>>) of the last pickBoxAt call
                       \* made on its own
  sortModeByUid,       \* the sort modes chosen: uid -> "top" or "newest"
  showLeaderboard,
  leaderboardRows,     \* the rows of the leaderboard: user_id, username, upvotes
  isLoadingLeaderboard,
  boardCalls,          \* the loadLeaderboard calls that await a response
  nboard,              \* the number of loadLeaderboard calls made so far
  openSuggestUid,      \* Null, or Some(uid) of the line whose suggestion form is open
  suggestText,         \* the text in the suggestion form
  profiles,            \* the username column of the profiles table: user id ->
                       \* username ("" when there is none)
  ingest,              \* the run of the ingest script: its position, its input,
                       \* what it has inserted and its exit code
  voteRows             \* the rows of suggestion_votes joined with their suggestions,
                       \* in the order the server lists them; equal rows that
                       \* follow each other are one entry with their number

viewVars == <<doc, pdf, pageKey, zoom>>

highlightVars == <<activeId, activeSource, activeBox, rightScrollTarget>>

indexVars == <<hitBoxes, boxByUidRef, consoleWarn>>

collapseVars == <<collapseSuggestions, collapsedUid>>

hoverVars == <<hoverRafRef, hoverPtRef>>

renderVars == <<renderTaskRef, attempts, canvas, alerts>>

backendVars == <<store, votes>>

suggVars ==
  <<DOCUMENT_ID, user, store, votes, requests, nreq, suggestionsByUid,
    isLoadingSuggestions, usernameByUserId, messages>>

geomVars == <<pageObj, lastPick>>

boardVars ==
  <<showLeaderboard, leaderboardRows, isLoadingLeaderboard, boardCalls, nboard, voteRows>>

panelVars == <<sortModeByUid, boardVars>>

formVars == <<openSuggestUid, suggestText>>

vars ==
  <<doc, pdf, pageKey, zoom, activeId, activeSource, activeBox, rightScrollTarget, hitBoxes,
    collapseSuggestions, collapsedUid, boxByUidRef, consoleWarn, renderTaskRef, hoverRafRef,
    hoverPtRef, isDraggingRef, attempts, canvas, scroll, rafQueue, alerts, ptr,
    last, DOCUMENT_ID, user, store, votes, requests, nreq, suggestionsByUid,
    isLoadingSuggestions, usernameByUserId, messages, pageObj, lastPick,
    sortModeByUid, showLeaderboard, leaderboardRows, isLoadingLeaderboard,
    boardCalls, nboard, voteRows, openSuggestUid, suggestText, profiles, ingest>>

\* The signed-in user, who has a profile with a username, and another author,
\* who has none.
U1 == "u1"

U2 == "u2"

\* The profiles table before the session: the signed-in user has a
\* username, the other author has none.
InitialProfiles == [u \in {U1, U2} |-> IF u = U1 THEN "ann" ELSE ""]

\* The state after the first render of the component, but for the document,
\* the selected page and the fetched suggestions.
InitRefs ==
  /\ pdf = Null
  /\ zoom = 10000
  /\ activeId = Null
  /\ activeSource = "none"
  /\ activeBox = Null
  /\ rightScrollTarget = Null
  /\ hitBoxes = <<>>
  /\ collapseSuggestions = FALSE
  /\ collapsedUid = {}
  /\ boxByUidRef = <<>>
  /\ consoleWarn = {}
  /\ renderTaskRef = Null
  /\ hoverRafRef = Null
  /\ hoverPtRef = Null
  /\ isDraggingRef = FALSE
  /\ attempts = <<>>
  /\ canvas = Null
  /\ scroll = <<0, 0>>
  /\ rafQueue = <<>>
  /\ alerts = {}
  /\ ptr = <<"out">>
  /\ last = <<"init">>
  /\ requests = <<>>
  /\ nreq = 0
  /\ isLoadingSuggestions = FALSE
  /\ usernameByUserId = <<>>
  /\ messages = {}
  /\ sortModeByUid = <<>>
  /\ showLeaderboard = FALSE
  /\ leaderboardRows = <<>>
  /\ isLoadingLeaderboard = FALSE
  /\ boardCalls = <<>>
  /\ nboard = 0
  /\ openSuggestUid = Null
  /\ suggestText = <<>>
  /\ profiles = InitialProfiles

\* The state after the first render of the component.
InitView ==
  /\ InitRefs
  /\ doc = FALSE
  /\ pageKey = Null
  /\ suggestionsByUid = <<>>

\* -------------------------------------------------------------- page list

\* docKeyByNum[n]: the last key of the document, in key order, with number n.
DocKeyByNum(n) ==
  LET at == { i \in 1..Len(DocKeys) : pageKeyToNumber(DocKeys[i]) = Some(n) }
  IN IF at = {} THEN Null
     ELSE Some(DocKeys[CHOOSE i \in at : \A j \in at : j <= i])

\* pageKeyToNumber(k) ?? 0
NumOrZero(k) == IF pageKeyToNumber(k) = Null THEN 0 ELSE pageKeyToNumber(k)[1]

InsertByNum(sorted, k) ==
  LET c == Cardinality({ i \in 1..Len(sorted) : NumOrZero(sorted[i]) <= NumOrZero(k) })
  IN SubSeq(sorted, 1, c) \o <<k>> \o SubSeq(sorted, c + 1, Len(sorted))

RECURSIVE SortByNum(_)
\* keys.sort((a, b) => (pageKeyToNumber(a) ?? 0) - (pageKeyToNumber(b) ?? 0))
SortByNum(ks) ==
  IF ks = <<>> THEN <<>>
  ELSE InsertByNum(SortByNum(SubSeq(ks, 1, Len(ks) - 1)), ks[Len(ks)])

\* The order in which the ingest script walks the pages of the document.
IngestOrder == SortByNum(DocKeys)

\* The pageKeys memo for given doc and pdf.
pageKeys(d, p) ==
  IF ~d THEN <<>>
  ELSE IF p # Null /\ p[1] # 0
    THEN [n \in 1..p[1] |->
            IF DocKeyByNum(n) = Null THEN PdfOnlyKey(n) ELSE DocKeyByNum(n)[1]]
    ELSE SortByNum(DocKeys)

\* LineUids with a transcript list of the lines that have a box only.
LineUids_Mut(k) ==
  IF HasPage(k)
  THEN { b.uid : b \in Range(NormalizeAll(getAllLinesForPage(DocPage(k)), DocPage(k))) }
  ELSE {}

\* The uids of the transcript lines shown for a page key.
LineUids(k) ==
  IF HasPage(k)
  THEN { getAllLinesForPage(DocPage(k))[i].uid :
           i \in 1..Len(getAllLinesForPage(DocPage(k))) }
  ELSE {}

\* ------------------------------------------------- the suggestions backend

\* Requests to the backend in one behaviour.
MaxRequests == 3

\* The username column of the profiles table, as a select reads it ("" for a
\* user without a row).
ProfileName(u) == IF u \in DOMAIN profiles THEN profiles[u] ELSE ""

\* user.email.split("@")[0]
EmailName(u) == IF u = U1 THEN "ann.s" ELSE "bob"

\* `user_${user.id.slice(0, 6)}`
UserFallback(u) == IF u = U1 THEN "user_u1" ELSE "user_u2"

\* A row of the suggestions table, created at the time its id counts.
SuggestionRow(id, pk, uid, text, u, author) ==
  [id |-> id, page_key |-> pk, uid |-> uid, suggested_text |-> text,
   user_id |-> u, author_username |-> author, vote_count |-> 0, created_at |-> id]

\* The table before the session: one suggestion by the other author for the
\* first line of page 1.
StoredRows == <<SuggestionRow(1, K1, UidOf(0, 0), <<"x">>, U2, "bob")>>

\* suggestion_votes(count) of a row
VoteCount(vs, id) == Len(SelectSeq(vs, LAMBDA v : v[1] = id))

\* Upsert that inserts a row whatever the table holds.
Upsert_Mut(vs, row) == Append(vs, row)

\* .upsert({ suggestion_id, user_id, vote: 1 }, { onConflict:
\* "suggestion_id,user_id" }): the row with that key is written again where
\* there is one, and inserted where there is none.
Upsert(vs, row) == IF row \in Range(vs) THEN vs ELSE Append(vs, row)

\* .eq("document_id", docId).eq("page_key", pk): the rows of a page with their
\* vote counts, as the server reads them.
SelectRows(rows, vs, pk) ==
  LET mine == SelectSeq(rows, LAMBDA r : r.page_key = pk)
  IN [i \in 1..Len(mine) |-> [mine[i] EXCEPT !.vote_count = VoteCount(vs, mine[i].id)]]

\* RanksBefore by the votes alone.
RanksBefore_Mut(a, b) == a.vote_count > b.vote_count

\* The comparator of the sort: votes descending, then newest first.
RanksBefore(a, b) ==
  IF a.vote_count # b.vote_count THEN a.vote_count > b.vote_count
  ELSE a.created_at > b.created_at

InsertByRank(sorted, r) ==
  LET k == Cardinality({ i \in 1..Len(sorted) : ~RanksBefore(r, sorted[i]) })
  IN SubSeq(sorted, 1, k) \o <<r>> \o SubSeq(sorted, k + 1, Len(sorted))

RECURSIVE SortByRank(_)
SortByRank(rows) ==
  IF rows = <<>> THEN <<>>
  ELSE InsertByRank(SortByRank(SubSeq(rows, 1, Len(rows) - 1)), rows[Len(rows)])

\* grouped: the rows of a response by uid, each group sorted.
Grouped(rows) ==
  [u \in { rows[i].uid : i \in 1..Len(rows) } |->
     SortByRank(SelectSeq(rows, LAMBDA r : r.uid = u))]

\* suggestionsByUid[uid] ?? []
SuggestionsOf(uid) ==
  IF uid \in DOMAIN suggestionsByUid THEN suggestionsByUid[uid] ELSE <<>>

\* sortModeByUid[uid] ?? "top"
ModeOf(uid) == IF uid \in DOMAIN sortModeByUid THEN sortModeByUid[uid] ELSE "top"

\* ComesBefore whatever the mode.
ComesBefore_Mut(mode, a, b) == RanksBefore(a, b)

\* The comparators of getSortedSuggestions: a negative result for (a, b).
ComesBefore(mode, a, b) ==
  IF mode = "newest" THEN a.created_at > b.created_at ELSE RanksBefore(a, b)

\* InsertByMode that puts a row before the rows it ties with.
InsertByMode_Mut(mode, sorted, r) ==
  LET k == Cardinality({ i \in 1..Len(sorted) : ComesBefore(mode, sorted[i], r) })
  IN SubSeq(sorted, 1, k) \o <<r>> \o SubSeq(sorted, k + 1, Len(sorted))

\* Array.prototype.sort is stable: a row goes after the rows it does not
\* come before.
InsertByMode(mode, sorted, r) ==
  LET k == Cardinality({ i \in 1..Len(sorted) : ~ComesBefore(mode, r, sorted[i]) })
  IN SubSeq(sorted, 1, k) \o <<r>> \o SubSeq(sorted, k + 1, Len(sorted))

RECURSIVE SortByMode(_, _)
SortByMode(mode, rows) ==
  IF rows = <<>> THEN <<>>
  ELSE InsertByMode(mode, SortByMode(mode, SubSeq(rows, 1, Len(rows) - 1)),
                    rows[Len(rows)])

\* getSortedSuggestions(uid): a sorted copy of the suggestions of a line.
getSortedSuggestions(uid) == SortByMode(ModeOf(uid), SuggestionsOf(uid))

\* The suggestions rendered under a line at most.
MaxShown == 5

\* Surfaced without the slice.
Surfaced_Mut(uid) ==
  IF collapseSuggestions \/ uid \in collapsedUid THEN <<>>
  ELSE getSortedSuggestions(uid)

\* The suggestions rendered under a line: none when the suggestions are
\* hidden or the line's list is collapsed, else getSortedSuggestions(uid).slice(0, 5).
Surfaced(uid) ==
  IF collapseSuggestions \/ uid \in collapsedUid THEN <<>>
  ELSE SubSeq(getSortedSuggestions(uid), 1,
              Min(MaxShown, Len(getSortedSuggestions(uid))))

IsSpace(c) == c = " "

RECURSIVE Squeeze(_)
\* s.replace(/\s+/g, " ")
Squeeze(t) ==
  IF t = <<>> THEN <<>>
  ELSE IF IsSpace(Head(t)) /\ Tail(t) # <<>> /\ IsSpace(Head(Tail(t)))
    THEN Squeeze(Tail(t))
    ELSE <<Head(t)>> \o Squeeze(Tail(t))

RECURSIVE Trim(_)
\* s.trim()
Trim(t) ==
  IF t = <<>> THEN <<>>
  ELSE IF IsSpace(Head(t)) THEN Trim(Tail(t))
  ELSE IF IsSpace(t[Len(t)]) THEN Trim(SubSeq(t, 1, Len(t) - 1))
  ELSE t

\* normalizeText that leaves the text as typed.
normalizeText_Mut(t) == t

normalizeText(t) == Trim(Squeeze(t))

\* The transcription of the line with a uid on a page.
OriginalText(k, uid) ==
  LET ls == getAllLinesForPage(DocPage(k))
  IN ls[CHOOSE i \in 1..Len(ls) : ls[i].uid = uid].transcription

\* What the user types into the suggestion form.
SuggestTexts == {<<>>, <<" ", "a", " ">>}

\* A request as it is sent.  pk, uid, text and known are what the closure of
\* the calling handler holds: the page key, the line, the normalized text and
\* the cached display names of the render the handler belongs to.
NewRequest(kind, pk, uid, text, sid, ids, known) ==
  [kind |-> kind, pk |-> pk, uid |-> uid, text |-> text, sid |-> sid, ids |-> ids,
   known |-> known, phase |-> "sent", ok |-> TRUE, rows |-> <<>>]

RemoveAt(q, i) == SubSeq(q, 1, i - 1) \o SubSeq(q, i + 1, Len(q))

\* loadSuggestionsForPage(DOCUMENT_ID, pk) up to its first await, with q the
\* requests in flight before the call.
loadSuggestionsForPage(q, pk, known) ==
  IF DOCUMENT_ID = Null \/ pk = Null
  THEN /\ requests' = q
       /\ UNCHANGED <<nreq, isLoadingSuggestions>>
  ELSE /\ nreq < MaxRequests
       /\ requests' = Append(q, NewRequest("select", pk, Null, Null, 0, {}, known))
       /\ nreq' = nreq + 1
       /\ isLoadingSuggestions' = TRUE

\* The suggestions effect on a commit: it runs when pageKey has changed.
SuggestionsEffect(k) ==
  IF k = pageKey THEN UNCHANGED <<requests, nreq, isLoadingSuggestions>>
  ELSE loadSuggestionsForPage(requests, k, usernameByUserId)

\* ------------------------------------------------------- the render effect

\* CancelTask without the cancel() call.
CancelTask_Mut(atts, ref) == atts

\* renderTaskRef.current?.cancel?.(): the recorded task, if it has not
\* settled, is asked to cancel.
CancelTask(atts, ref) ==
  IF ref # Null /\ atts[ref[1]].pc = "render"
  THEN [atts EXCEPT ![ref[1]].cancelReq = TRUE]
  ELSE atts

\* The cleanup of the render effect: the attempt of the last run is marked
\* cancelled and the task recorded in renderTaskRef is asked to cancel.
RenderCleanup(atts, ref) ==
  IF atts = <<>> THEN atts
  ELSE CancelTask([atts EXCEPT ![Len(atts)].cancelled = TRUE], ref)

\* Why the synchronous part of a run throws, or "" when it reaches getPage.
StartError(k, p) ==
  LET n == pageKeyToNumber(k)
  IN IF n = Null \/ n[1] = 0 THEN "badkey"
     ELSE IF n[1] < 1 \/ n[1] > p[1] THEN "range"
     ELSE ""

\* The attempt a run of the effect creates for page key k at zoom z.
NewAttempt(k, z, p) ==
  [pageKey |-> k, zoom |-> z,
   pc |-> IF StartError(k, p) = "" THEN "getPage" ELSE "failed",
   err |-> StartError(k, p),
   cancelled |-> FALSE, cancelReq |-> FALSE, prevScroll |-> Null]

\* The render effect on a commit: the attempts after the cleanup of the
\* previous run and the body of the new one.  The effect returns at once, and
\* registers no cleanup, while doc, pdf or pageKey is missing.
RenderEffect(atts, ref, d, p, k, z) ==
  IF ~d \/ p = Null \/ k = Null THEN RenderCleanup(atts, ref)
  ELSE Append(RenderCleanup(atts, ref), NewAttempt(k, z, p))

\* The alerts after a run of the effect: a run that throws shows one.
EffectAlerts(atts, d, p, k) ==
  IF ~d \/ p = Null \/ k = Null \/ StartError(k, p) = "" THEN alerts
  ELSE alerts \cup {Len(atts) + 1}

\* ------------------------------------------------------- loading and paging

\* Object.keys(j).find(k => pageKeyToNumber(k) != null) ?? Object.keys(j)[0]
FirstValid ==
  LET at == { i \in 1..Len(DocKeys) : pageKeyToNumber(DocKeys[i]) # Null }
  IN IF at = {} THEN DocKeys[1]
     ELSE DocKeys[CHOOSE i \in at : \A j \in at : i <= j]

\* The load effect, first half: the JSON arrives; setDoc and setPageKey.  The
\* PDF is not loaded yet, so the render effect returns at once.
LoadDoc ==
  /\ UNCHANGED <<geomVars, panelVars, profiles, ingest, formVars>>
  /\ ~doc
  /\ doc' = TRUE
  /\ pageKey' = FirstValid
  /\ SuggestionsEffect(FirstValid)
  /\ last' = <<"View">>
  /\ UNCHANGED <<DOCUMENT_ID, user, backendVars, suggestionsByUid, usernameByUserId,
                 messages>>
  /\ UNCHANGED <<pdf, zoom, highlightVars, indexVars, collapseVars, hoverVars,
                 isDraggingRef, renderVars, scroll, rafQueue, ptr>>

\* SelectedAfter without the selection effect.
SelectedAfter_Mut(keys, k) == k

\* The page key the selection effect leaves selected for a page list.
SelectedAfter(keys, k) ==
  IF keys # <<>> /\ (k = Null \/ k \notin Range(keys)) THEN keys[1] ELSE k

\* The pointer after the transcript is re-rendered for page key k: a line that
\* is no longer shown cannot hold the pointer.
PtrAfter(k) ==
  IF ptr[1] = "line" /\ ptr[2] \notin LineUids(k) THEN <<"out">> ELSE ptr

\* The load effect, second half: the PDF arrives; setPdf.  The commit runs the
\* render effect for the selected key, and the selection effect replaces a key
\* that is not in the new page list, which runs the render effect again.
LoadPdf(np) ==
  /\ UNCHANGED <<geomVars, panelVars, profiles, ingest, formVars>>
  /\ doc /\ pdf = Null
  /\ LET p == Some(np)
         k2 == SelectedAfter(pageKeys(TRUE, p), pageKey)
         a1 == RenderEffect(attempts, renderTaskRef, TRUE, p, pageKey, zoom)
         al1 == EffectAlerts(attempts, TRUE, p, pageKey)
     IN /\ pdf' = p
        /\ pageKey' = k2
        /\ attempts' = IF k2 = pageKey THEN a1
                       ELSE RenderEffect(a1, renderTaskRef, TRUE, p, k2, zoom)
        /\ alerts' = IF k2 = pageKey \/ StartError(k2, p) = "" THEN al1
                     ELSE al1 \cup {Len(a1) + 1}
        /\ ptr' = PtrAfter(k2)
        /\ SuggestionsEffect(k2)
  /\ last' = <<"View">>
  /\ UNCHANGED <<DOCUMENT_ID, user, backendVars, suggestionsByUid, usernameByUserId,
                 messages>>
  /\ UNCHANGED <<doc, zoom, highlightVars, indexVars, collapseVars, hoverVars,
                 isDraggingRef, renderTaskRef, canvas, scroll, rafQueue>>

\* A commit that changes pageKey or zoom re-runs the render effect.
Rerender(k, z) ==
  /\ pdf # Null => Len(attempts) < MaxAttempts
  /\ attempts' = RenderEffect(attempts, renderTaskRef, doc, pdf, k, z)
  /\ alerts' = EffectAlerts(attempts, doc, pdf, k)
  /\ UNCHANGED <<renderTaskRef, canvas>>

\* The page <select>: setPageKey(e.target.value)
SelectPage(k) ==
  /\ UNCHANGED <<geomVars, panelVars, profiles, ingest, formVars>>
  /\ doc
  /\ k \in Range(pageKeys(doc, pdf))
  /\ k # pageKey
  /\ pageKey' = k
  /\ Rerender(k, zoom)
  /\ SuggestionsEffect(k)
  /\ ptr' = PtrAfter(k)
  /\ last' = <<"View">>
  /\ UNCHANGED <<DOCUMENT_ID, user, backendVars, suggestionsByUid, usernameByUserId,
                 messages>>
  /\ UNCHANGED <<doc, pdf, zoom, highlightVars, indexVars, collapseVars,
                 hoverVars, isDraggingRef, scroll, rafQueue>>

\* Zoom steps the model takes away from 100% in either direction.
MaxZoomSteps == 1

clampZoom(z) == Max(5000, Min(50000, z))

\* clampZoom(Number((z * 1.15).toFixed(4)))
zoomIn(z) == clampZoom((z * 115 + 50) \div 100)

\* clampZoom(Number((z / 1.15).toFixed(4)))
zoomOut(z) == clampZoom((z * 200 + 115) \div 230)

zoomReset(z) == 10000

RECURSIVE ZoomInTimes(_, _)
ZoomInTimes(z, n) == IF n = 0 THEN z ELSE ZoomInTimes(zoomIn(z), n - 1)

RECURSIVE ZoomOutTimes(_, _)
ZoomOutTimes(z, n) == IF n = 0 THEN z ELSE ZoomOutTimes(zoomOut(z), n - 1)

\* The zoom buttons and Ctrl/Cmd + wheel: setZoom.  The model zooms once the
\* PDF is loaded (before that a zoom change starts no render attempt).
SetZoom(z) ==
  /\ UNCHANGED <<geomVars, panelVars, profiles, ingest, formVars>>
  /\ UNCHANGED suggVars
  /\ doc /\ pdf # Null
  /\ z # zoom
  /\ z >= ZoomOutTimes(10000, MaxZoomSteps)
  /\ z <= ZoomInTimes(10000, MaxZoomSteps)
  /\ zoom' = z
  /\ Rerender(pageKey, z)
  /\ last' = <<"View">>
  /\ UNCHANGED <<doc, pdf, pageKey, highlightVars, indexVars, collapseVars,
                 hoverVars, isDraggingRef, scroll, rafQueue, ptr>>

\* The "+", "-" and "Reset" buttons.
ZoomChange == \E z \in {zoomIn(zoom), zoomOut(zoom), zoomReset(zoom)} : SetZoom(z)

\* ------------------------------------------------------ canvas and scrolling

\* Math.floor(window.innerWidth * 0.48) of the model's window; pdfViewportWidth
\* stays 0, because the scroller does not exist when its effect runs on mount.
BaseWidth == 400

\* Math.max(200, ...) of targetCssWidth
MinCssWidth == 200

\* The PDF pages' width and height at scale 1.
PdfPageSize == <<100, 140>>

\* The padding of the scroller around the canvas, both sides together.
ScrollerPad == 2 * 12

\* Math.max(200, Math.floor(baseWidth * zoom))
targetCssWidth(z) == Max(MinCssWidth, (BaseWidth * z) \div 10000)

\* The CSS size the canvas is given for a zoom; a canvas never sized is 300 x 150.
CanvasCss(cv) ==
  IF cv = Null THEN <<300, 150>>
  ELSE <<targetCssWidth(cv[1].zoom),
         (targetCssWidth(cv[1].zoom) * PdfPageSize[2]) \div PdfPageSize[1]>>

\* <<scrollWidth, scrollHeight>> of the scroller around the canvas.
ScrollDims(cv) == <<CanvasCss(cv)[1] + ScrollerPad, CanvasCss(cv)[2] + ScrollerPad>>

\* Scroll offsets the user moves the scroller to, from its initial position.
ScrollChoices == {<<30, 70>>, <<60, 0>>}

\* The user scrolls the PDF pane.
UserScroll(s) ==
  /\ UNCHANGED <<geomVars, panelVars, profiles, ingest, formVars>>
  /\ UNCHANGED suggVars
  /\ doc
  /\ scroll = <<0, 0>>
  /\ scroll' = s
  /\ last' = <<"View">>
  /\ UNCHANGED <<viewVars, highlightVars, indexVars, collapseVars, hoverVars,
                 isDraggingRef, renderVars, rafQueue, ptr>>

\* ------------------------------------------------------ animation frames

\* The handle requestAnimationFrame returns: one no pending callback has.
FreshHandle(q) ==
  CHOOSE h \in 1..(Len(q) + 1) : \A i \in 1..Len(q) : q[i].handle # h

\* A pending callback.  A hover callback carries what its closure captured on
\* the render in which the pointer moved: hitBoxes, activeId and activeSource.
\* A scroll callback carries the prevScroll of its render attempt.
HoverCallback(h) ==
  [kind |-> "hover", handle |-> h, hitBoxes |-> hitBoxes, activeId |-> activeId,
   activeSource |-> activeSource, prev |-> Null]

ScrollCallback(h, prev) ==
  [kind |-> "scroll", handle |-> h, hitBoxes |-> <<>>, activeId |-> Null,
   activeSource |-> "none", prev |-> prev]

\* CancelFrame without the cancelAnimationFrame call.
CancelFrame_Mut(q, h) == q

\* cancelAnimationFrame(h)
CancelFrame(q, h) == SelectSeq(q, LAMBDA cb : cb.handle # h)

\* ------------------------------------------------- the transcript pane

\* ScrollsTranscript without the test of activeSource.
ScrollsTranscript_Mut(id, src) == id # Null /\ id[1] \in LineUids(pageKey)

\* Whether the transcript effect, run with activeId = id and activeSource =
\* src, reaches its scrollTo: the line is active with the page as source, and
\* its element is in the transcript list.
ScrollsTranscript(id, src) ==
  /\ id # Null
  /\ src = "left"
  /\ id[1] \in LineUids(pageKey)

\* The effect on [activeId, activeSource], as part of a step that sets the
\* highlight state: it runs when the pair changed, and then scrolls the
\* transcript pane to centre the active line or returns early.
TranscriptScrollEffect ==
  rightScrollTarget' =
    IF <<activeId', activeSource'>> # <<activeId, activeSource>>
       /\ ScrollsTranscript(activeId', activeSource')
    THEN activeId'
    ELSE rightScrollTarget

\* ------------------------------------------------- render attempts, async part

\* pdf.getPage(n) resolves for attempt i: prevScroll is read, the task recorded
\* for the canvas is asked to cancel, the canvas is resized and the attempt's
\* own raster task starts and is recorded.
GetPageResolves(i) ==
  /\ UNCHANGED <<geomVars, panelVars, profiles, ingest, formVars>>
  /\ UNCHANGED suggVars
  /\ i \in 1..Len(attempts)
  /\ attempts[i].pc = "getPage"
  /\ attempts' =
       [CancelTask(attempts, renderTaskRef) EXCEPT
          ![i].pc = "render",
          ![i].prevScroll = Some(<<scroll[1], scroll[2],
                                   ScrollDims(canvas)[1], ScrollDims(canvas)[2]>>)]
  /\ renderTaskRef' = Some(i)
  /\ canvas' = Some([owner |-> i, pageKey |-> attempts[i].pageKey,
                     zoom |-> attempts[i].zoom, drawn |-> FALSE])
  /\ last' = <<"Render">>
  /\ UNCHANGED <<viewVars, highlightVars, indexVars, collapseVars, hoverVars,
                 isDraggingRef, scroll, rafQueue, alerts, ptr>>

\* pdf.getPage(n) rejects: the error reaches the catch of the effect.
GetPageFails(i) ==
  /\ UNCHANGED <<geomVars, panelVars, profiles, ingest, formVars>>
  /\ UNCHANGED suggVars
  /\ i \in 1..Len(attempts)
  /\ attempts[i].pc = "getPage"
  /\ attempts' = [attempts EXCEPT ![i].pc = "failed", ![i].err = "getPage"]
  /\ alerts' = alerts \cup {i}
  /\ last' = <<"Render">>
  /\ UNCHANGED <<viewVars, highlightVars, indexVars, collapseVars, hoverVars,
                 isDraggingRef, renderTaskRef, canvas, scroll, rafQueue, ptr>>

\* finally { if (renderTaskRef.current === task) renderTaskRef.current = null }
RefAfterSettle(i) == IF renderTaskRef = Some(i) THEN Null ELSE renderTaskRef

\* The raster drawn: the canvas holds the task's page once the task resolves,
\* unless a later attempt has resized (and so cleared) the canvas since.
CanvasAfterDraw(i) ==
  IF canvas # Null /\ canvas[1].owner = i
  THEN Some([canvas[1] EXCEPT !.drawn = TRUE])
  ELSE canvas

\* The index the loop builds for the attempt's page.
IndexOf(k) == SortByArea(NormalizeAll(getAllLinesForPage(DocPage(k)), DocPage(k)))

\* ClearedIndex without the setHitBoxes([]) call.
ClearedIndex_Mut(prev) == prev

\* setHitBoxes([]) of a page without a transcription entry
ClearedIndex(prev) == <<>>

\* ClearedBox without the setActiveBox(null) call.
ClearedBox_Mut(prev) == prev

\* setActiveBox(null) of the render effect, next to the reset of the lookup
ClearedBox(prev) == Null

\* AppliesResult without the test of the cancelled flag.
AppliesResult_Mut(i) == TRUE

\* What a resolved task's attempt does next: nothing when it was superseded.
AppliesResult(i) == ~attempts[i].cancelled

\* task.promise resolves for attempt i.
TaskResolves(i) ==
  /\ UNCHANGED <<geomVars, panelVars, profiles, ingest, formVars>>
  /\ UNCHANGED suggVars
  /\ i \in 1..Len(attempts)
  /\ attempts[i].pc = "render"
  /\ renderTaskRef' = RefAfterSettle(i)
  /\ canvas' = CanvasAfterDraw(i)
  /\ last' = <<"Render">>
  /\ IF ~AppliesResult(i)
     THEN /\ attempts' = [attempts EXCEPT ![i].pc = "stale", ![i].prevScroll = Null]
          /\ UNCHANGED <<highlightVars, indexVars, rafQueue>>
     ELSE /\ attempts' = [attempts EXCEPT ![i].pc = "done", ![i].prevScroll = Null]
          /\ activeBox' = ClearedBox(activeBox)
          /\ UNCHANGED activeSource
          /\ IF ~HasPage(attempts[i].pageKey)
             THEN /\ boxByUidRef' = ResetLookup(boxByUidRef)
                  /\ hitBoxes' = ClearedIndex(hitBoxes)
                  /\ UNCHANGED consoleWarn
                  /\ activeId' = Null
                  /\ TranscriptScrollEffect
                  /\ UNCHANGED rafQueue
             ELSE /\ boxByUidRef' = BuildLookup(boxByUidRef, DocPage(attempts[i].pageKey))
                  /\ hitBoxes' = BuildIndex(hitBoxes, DocPage(attempts[i].pageKey))
                  /\ consoleWarn' = consoleWarn \cup LargeBoxWarnings(DocPage(attempts[i].pageKey))
                  /\ UNCHANGED <<activeId, rightScrollTarget>>
                  /\ rafQueue' = Append(rafQueue,
                         ScrollCallback(FreshHandle(rafQueue), attempts[i].prevScroll))
  /\ UNCHANGED <<viewVars, collapseVars, hoverVars, isDraggingRef, scroll,
                 alerts, ptr>>

\* IgnoresRejection with a catch that ignores every rejection.
IgnoresRejection_Mut(i, isCancel) == TRUE

\* Whether a rejection of attempt i's task is ignored by the catch:
\* cancelled || e?.name === "RenderingCancelledException"
IgnoresRejection(i, isCancel) == attempts[i].cancelled \/ isCancel

\* task.promise rejects for attempt i: with a RenderingCancelledException when
\* the task was asked to cancel, or with another error.
TaskRejects(i, isCancel) ==
  /\ UNCHANGED <<geomVars, panelVars, profiles, ingest, formVars>>
  /\ UNCHANGED suggVars
  /\ i \in 1..Len(attempts)
  /\ attempts[i].pc = "render"
  /\ isCancel => attempts[i].cancelReq
  /\ renderTaskRef' = RefAfterSettle(i)
  /\ last' = <<"Render">>
  /\ IF IgnoresRejection(i, isCancel)
     THEN /\ attempts' = [attempts EXCEPT ![i].pc = "cancelled", ![i].prevScroll = Null,
                                          ![i].err = IF isCancel THEN "" ELSE "raster"]
          /\ UNCHANGED alerts
     ELSE /\ attempts' = [attempts EXCEPT ![i].pc = "failed", ![i].prevScroll = Null,
                                          ![i].err = "raster"]
          /\ alerts' = alerts \cup {i}
  /\ UNCHANGED <<viewVars, highlightVars, indexVars, collapseVars, hoverVars,
                 isDraggingRef, canvas, scroll, rafQueue, ptr>>

\* ------------------------------------------------ the Highlight Synchronizer

\* Points of the rendered page the pointer visits, as (u, v) in 1/Grid: the
\* first is inside line 0-0 of page 1 only; the second is inside lines 0-0 and
\* 1-0 of page 1 and inside line 0-0 of page 2; the third is inside no line.
Points == {<<1500, 1500>>, <<3000, 1500>>, <<9000, 9000>>}

\* pickBoxAt(uu, vv) with the point clamped to [0,1] first.
pickBoxAt(boxes, pt) == pickBoxFrom(boxes, Clamp01(pt[1]), Clamp01(pt[2]))

\* The body of the frame callback of onHitSvgMouseMove, on a highlight state
\* st = [activeId, activeSource, activeBox, hoverRafRef].  It reads hoverPtRef
\* and boxByUidRef as they are when the frame runs, and hitBoxes, activeId and
\* activeSource as its closure captured them.
HoverFrame(cb, st) ==
  LET cleared == [st EXCEPT !.hoverRafRef = Null]
      picked == IF hoverPtRef = Null THEN Null ELSE pickBoxAt(cb.hitBoxes, hoverPtRef[1])
  IN IF hoverPtRef = Null \/ picked = Null THEN cleared
     ELSE IF cb.activeId = Some(picked[1].uid) /\ cb.activeSource = "left" THEN cleared
     ELSE [cleared EXCEPT !.activeSource = "left",
                          !.activeId = Some(picked[1].uid),
                          !.activeBox = LookupBox(boxByUidRef, picked[1].uid)]

\* The body of the frame callback the render effect requests after a render:
\* the scroll offsets are restored in proportion to the new scroll dimensions.
ScrollFrame(cb, sc) ==
  LET newW == IF ScrollDims(canvas)[1] = 0 THEN 1 ELSE ScrollDims(canvas)[1]
      newH == IF ScrollDims(canvas)[2] = 0 THEN 1 ELSE ScrollDims(canvas)[2]
      prev == cb.prev[1]
  IN <<IF prev[3] = 0 THEN 0 ELSE Max(0, (prev[1] * newW) \div prev[3]),
       IF prev[4] = 0 THEN 0 ELSE Max(0, (prev[2] * newH) \div prev[4])>>

RECURSIVE RunHover(_, _)
\* The hover callbacks of a frame, run in the order they were requested.
RunHover(q, st) ==
  IF q = <<>> THEN st
  ELSE RunHover(Tail(q), IF Head(q).kind = "hover" THEN HoverFrame(Head(q), st) ELSE st)

RECURSIVE RunScroll(_, _)
RunScroll(q, sc) ==
  IF q = <<>> THEN sc
  ELSE RunScroll(Tail(q), IF Head(q).kind = "scroll" THEN ScrollFrame(Head(q), sc) ELSE sc)

\* An animation frame: every callback requested before it runs, in order.
AnimationFrame ==
  /\ UNCHANGED <<geomVars, panelVars, profiles, ingest, formVars>>
  /\ UNCHANGED suggVars
  /\ rafQueue # <<>>
  /\ LET st == RunHover(rafQueue, [activeId |-> activeId, activeSource |-> activeSource,
                                   activeBox |-> activeBox, hoverRafRef |-> hoverRafRef])
     IN /\ activeId' = st.activeId
        /\ activeSource' = st.activeSource
        /\ activeBox' = st.activeBox
        /\ hoverRafRef' = st.hoverRafRef
        /\ TranscriptScrollEffect
  /\ scroll' = RunScroll(rafQueue, scroll)
  /\ rafQueue' = <<>>
  /\ last' = <<"AnimationFrame", { rafQueue[i].kind : i \in 1..Len(rafQueue) }>>
  /\ UNCHANGED <<viewVars, indexVars, collapseVars, hoverPtRef, isDraggingRef,
                 renderVars, ptr>>

\* FramePending with a test that never finds a frame pending.
FramePending_Mut(ref) == FALSE

\* if (hoverRafRef.current != null) return;
FramePending(ref) == ref # Null

\* onPdfMouseMove, which a mouse move over the page reaches by bubbling: while
\* a drag-pan is on, the scroller is moved to the offsets the drag distance
\* gives; otherwise the handler returns at once.
DragOffsets == IF isDraggingRef THEN ScrollChoices ELSE {scroll}

\* onPdfMouseDown: a press on the page starts a drag-pan when zoomed in.
onPdfMouseDown ==
  /\ UNCHANGED <<geomVars, panelVars, profiles, ingest, formVars>>
  /\ UNCHANGED suggVars
  /\ doc
  /\ ptr = <<"page">>
  /\ ~isDraggingRef
  /\ isDraggingRef' = (zoom > 10000)
  /\ last' = <<"MouseDown">>
  /\ UNCHANGED <<viewVars, highlightVars, indexVars, collapseVars, hoverVars,
                 renderVars, scroll, rafQueue, ptr>>

\* onHitSvgMouseMove: the point is recorded; a frame callback is requested
\* unless one is pending.  The event then reaches onPdfMouseMove.
onHitSvgMouseMove(pt) ==
  /\ UNCHANGED <<geomVars, panelVars, profiles, ingest, formVars>>
  /\ UNCHANGED suggVars
  /\ doc
  /\ ptr \in {<<"out">>, <<"page">>}
  /\ ptr' = <<"page">>
  /\ hoverPtRef' = Some(pt)
  /\ IF FramePending(hoverRafRef)
     THEN UNCHANGED <<hoverRafRef, rafQueue>>
     ELSE /\ hoverRafRef' = Some(FreshHandle(rafQueue))
          /\ rafQueue' = Append(rafQueue, HoverCallback(FreshHandle(rafQueue)))
  /\ scroll' \in DragOffsets
  /\ last' = <<"MouseMove", pt, hoverRafRef # Null>>
  /\ UNCHANGED <<viewVars, highlightVars, indexVars, collapseVars, isDraggingRef,
                 renderVars>>

\* onHitSvgMouseLeave
onHitSvgMouseLeave ==
  /\ UNCHANGED <<geomVars, panelVars, profiles, ingest, formVars>>
  /\ UNCHANGED suggVars
  /\ ptr = <<"page">>
  /\ ptr' = <<"out">>
  /\ hoverPtRef' = Null
  /\ hoverRafRef' = Null
  /\ rafQueue' = IF hoverRafRef # Null THEN CancelFrame(rafQueue, hoverRafRef[1])
                 ELSE rafQueue
  /\ activeSource' = "none"
  /\ activeId' = Null
  /\ activeBox' = Null
  /\ TranscriptScrollEffect
  /\ last' = <<"MouseLeave", hoverRafRef # Null>>
  /\ UNCHANGED <<viewVars, indexVars, collapseVars, isDraggingRef, renderVars, scroll>>

\* The flags record is only ever read for the truthiness of an entry, so it is
\* held as the set of uids whose flag is true.
\* !!prev[uid]
IsCollapsed(flags, uid) == uid \in flags

\* { ...prev, [uid]: v }
WithFlag(flags, uid, v) == IF v THEN flags \cup {uid} ELSE flags \ {uid}

\* ClickFlags with an updater that collapses instead of toggling.
ClickFlags_Mut(prev, uid, wasSame) == WithFlag(prev, uid, wasSame)

\* The updater of setCollapsedUid in onHitSvgClick.
ClickFlags(prev, uid, wasSame) ==
  IF ~wasSame THEN WithFlag(prev, uid, FALSE)
  ELSE WithFlag(prev, uid, ~IsCollapsed(prev, uid))

\* The release of the mouse button on the rendered page at pt and the click
\* event that follows it: the mouseup event reaches onPdfMouseUp (endDrag),
\* which sets isDraggingRef false, then onHitSvgClick runs and reads it.
onHitSvgClick(pt) ==
  /\ UNCHANGED <<geomVars, panelVars, profiles, ingest, suggestText>>
  /\ UNCHANGED suggVars
  /\ doc
  /\ ptr = <<"page">>
  /\ isDraggingRef' = FALSE
  /\ LET picked == pickBoxAt(hitBoxes, pt)
     IN IF isDraggingRef' \/ pageKey = Null \/ ~HasPage(pageKey) \/ picked = Null
        THEN /\ last' = <<"Click", pt, Null, FALSE, FALSE>>
             /\ UNCHANGED <<highlightVars, collapseVars, openSuggestUid>>
        ELSE /\ last' = <<"Click", pt, Some(picked[1].uid),
                          activeId = Some(picked[1].uid),
                          IsCollapsed(collapsedUid, picked[1].uid)>>
             /\ activeSource' = "left"
             /\ activeId' = Some(picked[1].uid)
             /\ activeBox' = LookupBox(boxByUidRef, picked[1].uid)
             /\ TranscriptScrollEffect
             /\ collapseSuggestions' = FALSE
             /\ collapsedUid' = ClickFlags(collapsedUid, picked[1].uid,
                                           activeId = Some(picked[1].uid))
             /\ openSuggestUid' = Null
  /\ UNCHANGED <<viewVars, indexVars, hoverVars, renderVars, scroll, rafQueue, ptr>>

\* LineActivate made to depend on the index: a line without a box stays
\* inactive.
LineActivate_Mut(uid) ==
  /\ activeSource' = "right"
  /\ activeId' = IF uid \in DOMAIN boxByUidRef THEN Some(uid) ELSE Null
  /\ activeBox' = LookupBox(boxByUidRef, uid)
  /\ TranscriptScrollEffect

\* The transcript line handlers: onMouseEnter and onClick set the line active
\* with the transcript as source; onMouseLeave clears the highlight.
LineActivate(uid) ==
  /\ activeSource' = "right"
  /\ activeId' = Some(uid)
  /\ activeBox' = LookupBox(boxByUidRef, uid)
  /\ TranscriptScrollEffect

LineMouseEnter(uid) ==
  /\ UNCHANGED <<geomVars, panelVars, profiles, ingest, formVars>>
  /\ UNCHANGED suggVars
  /\ doc
  /\ ptr = <<"out">>
  /\ uid \in LineUids(pageKey)
  /\ ptr' = <<"line", uid>>
  /\ LineActivate(uid)
  /\ last' = <<"LineEnter", uid>>
  /\ UNCHANGED <<viewVars, indexVars, collapseVars, hoverVars, isDraggingRef,
                 renderVars, scroll, rafQueue>>

LineClick(uid) ==
  /\ UNCHANGED <<geomVars, panelVars, profiles, ingest, formVars>>
  /\ UNCHANGED suggVars
  /\ ptr = <<"line", uid>>
  /\ LineActivate(uid)
  /\ last' = <<"LineClick", uid>>
  /\ UNCHANGED <<viewVars, indexVars, collapseVars, hoverVars, isDraggingRef,
                 renderVars, scroll, rafQueue, ptr>>

LineMouseLeave ==
  /\ UNCHANGED <<geomVars, panelVars, profiles, ingest, formVars>>
  /\ UNCHANGED suggVars
  /\ ptr[1] = "line"
  /\ ptr' = <<"out">>
  /\ activeSource' = "none"
  /\ activeId' = Null
  /\ activeBox' = Null
  /\ TranscriptScrollEffect
  /\ last' = <<"LineLeave">>
  /\ UNCHANGED <<viewVars, indexVars, collapseVars, hoverVars, isDraggingRef,
                 renderVars, scroll, rafQueue>>

\* The header button: setCollapseSuggestions((v) => !v)
ToggleCollapseSuggestions ==
  /\ UNCHANGED <<geomVars, panelVars, profiles, ingest, formVars>>
  /\ UNCHANGED suggVars
  /\ doc
  /\ ptr = <<"out">>
  /\ collapseSuggestions' = ~collapseSuggestions
  /\ last' = <<"ToggleCollapse">>
  /\ UNCHANGED <<viewVars, highlightVars, indexVars, collapsedUid, hoverVars,
                 isDraggingRef, renderVars, scroll, rafQueue, ptr>>

\* ------------------------------------------------ the suggestion handlers

\* What the view leaves alone while the suggestion handlers run.
pageVars ==
  <<viewVars, highlightVars, indexVars, collapseVars, hoverVars, isDraggingRef,
    renderVars, scroll, rafQueue, ptr>>

\* The "Suggest Edit" button of a line: the form opens on the line with its
\* transcription, or closes when it is open on the line.
ToggleSuggestForm(uid) ==
  /\ UNCHANGED <<geomVars, panelVars, profiles, ingest, suggVars, pageVars>>
  /\ doc
  /\ uid \in LineUids(pageKey)
  /\ IF openSuggestUid = Some(uid)
     THEN openSuggestUid' = Null /\ suggestText' = <<>>
     ELSE openSuggestUid' = Some(uid) /\ suggestText' = OriginalText(pageKey, uid)
  /\ last' = <<"Form">>

\* The textarea of the open form: setSuggestText(e.target.value)
TypeSuggestion(typed) ==
  /\ UNCHANGED <<geomVars, panelVars, profiles, ingest, suggVars, pageVars, openSuggestUid>>
  /\ doc
  /\ openSuggestUid # Null
  /\ openSuggestUid[1] \in LineUids(pageKey)
  /\ suggestText' = typed
  /\ last' = <<"Form">>

\* submitSuggestion(uid, originalText) up to its await: the button of the
\* form open on the line.
submitSuggestion(uid) ==
  /\ UNCHANGED <<geomVars, panelVars, profiles, ingest, formVars>>
  /\ doc
  /\ uid \in LineUids(pageKey)
  /\ openSuggestUid = Some(uid)
  /\ LET text == normalizeText(suggestText)
         original == normalizeText(OriginalText(pageKey, uid))
     IN IF user = Null
        THEN /\ messages' = messages \cup {"Please sign in to suggest edits."}
             /\ UNCHANGED <<requests, nreq>>
        ELSE IF DOCUMENT_ID = Null
        THEN /\ messages' = messages \cup {"Missing NEXT_PUBLIC_DOCUMENT_ID in .env.local"}
             /\ UNCHANGED <<requests, nreq>>
        ELSE IF pageKey = Null \/ text = <<>>
        THEN UNCHANGED <<requests, nreq, messages>>
        ELSE IF text = original
        THEN /\ messages' = messages \cup
                  {"Your suggestion is identical to the current transcription."}
             /\ UNCHANGED <<requests, nreq>>
        ELSE /\ nreq < MaxRequests
             /\ requests' = Append(requests,
                  NewRequest("insert", pageKey, uid, text, 0, {}, usernameByUserId))
             /\ nreq' = nreq + 1
             /\ UNCHANGED messages
  /\ last' = <<"Submit">>
  /\ UNCHANGED <<DOCUMENT_ID, user, backendVars, suggestionsByUid,
                 isLoadingSuggestions, usernameByUserId, pageVars>>

\* The suggestions shown under the lines of the selected page: the first five
\* of each line that is not collapsed.
ShownSuggestions ==
  UNION { { s.id : s \in Range(Surfaced(u)) } : u \in LineUids(pageKey) }

\* upvoteSuggestion(suggestionId) up to its await.
upvoteSuggestion(sid) ==
  /\ UNCHANGED <<geomVars, panelVars, profiles, ingest, formVars>>
  /\ doc
  /\ sid \in ShownSuggestions
  /\ IF user = Null
     THEN /\ messages' = messages \cup {"Please sign in to vote."}
          /\ UNCHANGED <<requests, nreq>>
     ELSE /\ nreq < MaxRequests
          /\ requests' = Append(requests,
               NewRequest("upsert", pageKey, Null, Null, sid, {}, usernameByUserId))
          /\ nreq' = nreq + 1
          /\ UNCHANGED messages
  /\ last' = <<"Upvote">>
  /\ UNCHANGED <<DOCUMENT_ID, user, backendVars, suggestionsByUid,
                 isLoadingSuggestions, usernameByUserId, pageVars>>

\* unameSnapshot of submitSuggestion
NameSnapshot(known, u) ==
  IF u \in DOMAIN known THEN known[u]
  ELSE IF EmailName(u) # "" THEN EmailName(u)
  ELSE UserFallback(u)

\* .from("profiles").select("id, username").in("id", ids), as the server
\* reads the table: <<id, username>> of the users asked for.
ProfileRows(ids) ==
  SelectSeq(<< <<U1, ProfileName(U1)>>, <<U2, ProfileName(U2)>> >>,
            LAMBDA pr : pr[1] \in ids)

\* The backend handles request i, with success or with an error.
ServerHandles(i, ok) ==
  /\ UNCHANGED <<geomVars, panelVars, profiles, ingest, formVars>>
  /\ i \in 1..Len(requests)
  /\ requests[i].phase = "sent"
  /\ LET r == requests[i]
     IN /\ requests' = [requests EXCEPT
             ![i].phase = "answered",
             ![i].ok = ok,
             ![i].rows = IF ok /\ r.kind = "select" THEN SelectRows(store, votes, r.pk)
                         ELSE IF ok /\ r.kind = "profiles" THEN ProfileRows(r.ids)
                         ELSE <<>>]
        /\ store' = IF ok /\ r.kind = "insert"
                    THEN Append(store, SuggestionRow(Len(store) + 1, r.pk, r.uid, r.text,
                                   user[1], NameSnapshot(r.known, user[1])))
                    ELSE store
        /\ votes' = IF ok /\ r.kind = "upsert" THEN Upsert(votes, <<r.sid, user[1]>>)
                    ELSE votes
  /\ last' = <<"Backend">>
  /\ UNCHANGED <<DOCUMENT_ID, user, nreq, suggestionsByUid, isLoadingSuggestions,
                 usernameByUserId, messages, pageVars>>

\* ResetOnError that keeps the list.
ResetOnError_Mut(prev) == prev

\* The catch blocks of the fetches: setSuggestionsByUid({}) and
\* setLeaderboardRows([])
ResetOnError(prev) == <<>>

\* The user ids of a response that have no cached display name.
MissingNames(rows, known) == { rows[j].user_id : j \in 1..Len(rows) } \ DOMAIN known

\* setUsernameByUserId after the profiles response: non-empty names are cached.
WithProfiles(prev, profs) ==
  LET named == { pr \in Range(profs) : pr[2] # "" }
  IN [u \in DOMAIN prev \cup { pr[1] : pr \in named } |->
        IF \E pr \in named : pr[1] = u
        THEN (CHOOSE pr \in named : pr[1] = u)[2]
        ELSE prev[u]]

\* The response to request i arrives: the handler that awaited it continues.
ResponseArrives(i) ==
  /\ UNCHANGED <<geomVars, panelVars, profiles, ingest>>
  /\ i \in 1..Len(requests)
  /\ requests[i].phase = "answered"
  /\ IF requests[i].kind = "insert" /\ requests[i].ok
     THEN openSuggestUid' = Null /\ suggestText' = <<>>
     ELSE UNCHANGED formVars
  /\ LET r == requests[i]
         rest == RemoveAt(requests, i)
     IN CASE r.kind = "select" ->
               IF ~r.ok
               THEN /\ suggestionsByUid' = ResetOnError(suggestionsByUid)
                    /\ isLoadingSuggestions' = FALSE
                    /\ requests' = rest
                    /\ UNCHANGED <<nreq, usernameByUserId, messages>>
               ELSE /\ suggestionsByUid' = Grouped(r.rows)
                    /\ UNCHANGED <<usernameByUserId, messages>>
                    /\ IF MissingNames(r.rows, r.known) = {}
                       THEN /\ isLoadingSuggestions' = FALSE
                            /\ requests' = rest
                            /\ UNCHANGED nreq
                       ELSE /\ nreq < MaxRequests
                            /\ requests' = Append(rest,
                                 NewRequest("profiles", r.pk, Null, Null, 0,
                                            MissingNames(r.rows, r.known), r.known))
                            /\ nreq' = nreq + 1
                            /\ UNCHANGED isLoadingSuggestions
          [] r.kind = "profiles" ->
               /\ usernameByUserId' = IF r.ok THEN WithProfiles(usernameByUserId, r.rows)
                                      ELSE usernameByUserId
               /\ isLoadingSuggestions' = FALSE
               /\ requests' = rest
               /\ UNCHANGED <<nreq, suggestionsByUid, messages>>
          [] OTHER ->
               IF ~r.ok
               THEN /\ messages' = messages \cup {"error.message"}
                    /\ requests' = rest
                    /\ UNCHANGED <<nreq, suggestionsByUid, isLoadingSuggestions,
                                   usernameByUserId>>
               ELSE /\ loadSuggestionsForPage(rest, r.pk, r.known)
                    /\ UNCHANGED <<suggestionsByUid, usernameByUserId, messages>>
  /\ last' = IF requests[i].kind = "select" /\ ~requests[i].ok
             THEN <<"Backend", "failed">> ELSE <<"Backend">>
  /\ UNCHANGED <<DOCUMENT_ID, user, backendVars, pageVars>>

\* The usernames an author's profile is given.
ProfileNames == {"ann", "zed"}

\* The author with a profile changes the username of the profile: an update
\* of the profiles table made outside the viewer.
RenameProfile(u, name) ==
  /\ u \in DOMAIN profiles
  /\ name # profiles[u]
  /\ profiles' = [profiles EXCEPT ![u] = name]
  /\ last' = <<"Rename">>
  /\ UNCHANGED <<geomVars, panelVars, ingest, formVars, suggVars, pageVars>>

\* DisplayedAuthor with the cached profile name before the snapshot.
DisplayedAuthor_Mut(s) ==
  IF s.user_id \in DOMAIN usernameByUserId THEN <<usernameByUserId[s.user_id]>>
  ELSE IF s.author_username # "" THEN <<s.author_username>>
  ELSE <<"user:", s.user_id>>

\* The name after "by" under a suggestion:
\* s.author_username || usernameByUserId[s.user_id] || `user:${...}`
DisplayedAuthor(s) ==
  IF s.author_username # "" THEN <<s.author_username>>
  ELSE IF s.user_id \in DOMAIN usernameByUserId THEN <<usernameByUserId[s.user_id]>>
  ELSE <<"user:", s.user_id>>

\* ------------------------------------------------------- the ingest script

\* The documents the script is run on.  A document is a sequence of entries
\* [page, copies]: copies pages with the content of page under keys of their
\* own, so that a document of thousands of lines stays small.
IngestCopies == {1, 400, 1000}

MaxIngestEntries == 2

IngestEntries ==
  { [page |-> p, copies |-> n] : p \in {PageCover, Page1, Page2}, n \in IngestCopies }

IngestInputs ==
  UNION { [1..n -> IngestEntries] : n \in 1..MaxIngestEntries }

\* The lines of a page that the loop pushes to rows: those whose four bbox
\* coordinates are all finite.
IngestRowsOfPage(p) ==
  Len(SelectSeq(getAllLinesForPage(p), LAMBDA l : \A c \in 1..4 : l.bbox[c] # Null))

RECURSIVE IngestRowsFrom(_, _)
\* rows.length after the loop over the pages from entry e on
IngestRowsFrom(json, e) ==
  IF e > Len(json) THEN 0
  ELSE json[e].copies * IngestRowsOfPage(json[e].page) + IngestRowsFrom(json, e + 1)

IngestRows(json) == IngestRowsFrom(json, 1)

\* rows per insert into lines
CHUNK == 1000

\* The script started on a document: nothing inserted yet.
IngestStart(json) ==
  [pc |-> "main", json |-> json, document |-> FALSE, rows |-> 0, i |-> 0, lines |-> 0,
   code |-> Null]

\* The run the viewer's document comes from: the script has exited with its
\* documents row and its lines inserted.
Ingested ==
  LET json == [e \in 1..Len(DocKeys) |-> [page |-> DocPage(DocKeys[e]), copies |-> 1]]
  IN  [pc |-> "exit", json |-> json, document |-> TRUE, rows |-> IngestRows(json),
       i |-> CHUNK, lines |-> IngestRows(json), code |-> Some(0)]

\* main up to the first chunk: the documents row is inserted (ok) or the
\* insert returns an error, which main throws; then the rows are built, and
\* main throws if there are none.  A throw in main ends the process with
\* exit code 1.
IngestInsertDocument(ok) ==
  /\ ingest.pc = "main"
  /\ LET n == IngestRows(ingest.json)
     IN  ingest' =
           IF ~ok THEN [ingest EXCEPT !.pc = "exit", !.code = Some(1)]
           ELSE IF n = 0
             THEN [ingest EXCEPT !.document = TRUE, !.pc = "exit", !.code = Some(1)]
           ELSE [ingest EXCEPT !.document = TRUE, !.rows = n, !.pc = "insert"]
  /\ last' = <<"IngestDocument", ok>>
  /\ UNCHANGED <<geomVars, panelVars, profiles, formVars, suggVars, pageVars>>

\* One turn of the chunk loop: the insert of rows i .. i + CHUNK into lines
\* succeeds, or returns an error, which is thrown to the catch block.
IngestInsertChunk(ok) ==
  /\ ingest.pc = "insert"
  /\ LET size == Min(CHUNK, ingest.rows - ingest.i)
         next == ingest.i + CHUNK
     IN  ingest' =
           IF ~ok THEN [ingest EXCEPT !.pc = "catch"]
           ELSE IF next < ingest.rows
             THEN [ingest EXCEPT !.lines = @ + size, !.i = next]
           ELSE [ingest EXCEPT !.lines = @ + size, !.i = next, !.pc = "exit",
                               !.code = Some(0)]
  /\ last' = <<"IngestChunk", ok>>
  /\ UNCHANGED <<geomVars, panelVars, profiles, formVars, suggVars, pageVars>>

\* The catch block: the delete of the documents row is awaited, its result is
\* not looked at, and the error is thrown again.
IngestDeleteDocument(ok) ==
  /\ ingest.pc = "catch"
  /\ ingest' = [ingest EXCEPT !.document = IF ok THEN FALSE ELSE @, !.pc = "exit",
                              !.code = Some(1)]
  /\ last' = <<"IngestDelete", ok>>
  /\ UNCHANGED <<geomVars, panelVars, profiles, formVars, suggVars, pageVars>>

\* ---------------------------------------------------------- specification

\* A deployment without NEXT_PUBLIC_DOCUMENT_ID: no suggestions are fetched.
Init ==
  /\ InitView
  /\ pageObj = Null
  /\ ingest = Ingested
  /\ lastPick = Null
  /\ voteRows = <<>>
  /\ DOCUMENT_ID = Null
  /\ user = Null
  /\ store = <<>>
  /\ votes = <<>>

\* A deployment with a document id and a signed-in user, whose profile lookup
\* has not filled the display-name cache.
InitSugg ==
  /\ InitView
  /\ pageObj = Null
  /\ ingest = Ingested
  /\ lastPick = Null
  /\ voteRows = <<>>
  /\ DOCUMENT_ID = Some("doc")
  /\ user = Some(U1)
  /\ store = StoredRows
  /\ votes = <<>>

\* Render attempts in a behaviour of the viewer with its pointer events.
MaxSyncAttempts == 1

\* The steps of the render pipeline that the pointer events interleave with.
RenderStep ==
  \/ \E np \in NumPagesChoices : LoadPdf(np)
  \/ \E k \in Range(pageKeys(doc, pdf)) : SelectPage(k)
  \/ \E i \in 1..MaxSyncAttempts : GetPageResolves(i)
  \/ \E i \in 1..MaxSyncAttempts : TaskResolves(i)
  \/ \E i \in 1..MaxSyncAttempts, c \in BOOLEAN : TaskRejects(i, c)

\* The viewer with its pointer events: the Highlight Synchronizer over the
\* Region Index that the render attempts build and replace.
Next ==
  \/ LoadDoc
  \/ RenderStep /\ Len(attempts') <= MaxSyncAttempts
  \/ \E pt \in Points : onHitSvgMouseMove(pt)
  \/ AnimationFrame
  \/ onHitSvgMouseLeave
  \/ \E pt \in Points : onHitSvgClick(pt)
  \/ \E u \in LineUids(pageKey) : LineMouseEnter(u)
  \/ \E u \in LineUids(pageKey) : LineClick(u)
  \/ LineMouseLeave
  \/ ToggleCollapseSuggestions

Spec == Init /\ [][Next]_vars

\* The render pipeline with every page and zoom change and every outcome of
\* its asynchronous steps.
NextRender ==
  \/ LoadDoc
  \/ \E np \in NumPagesChoices : LoadPdf(np)
  \/ \E k \in Range(pageKeys(doc, pdf)) : SelectPage(k)
  \/ ZoomChange
  \/ \E i \in 1..MaxAttempts : GetPageResolves(i)
  \/ \E i \in 1..MaxAttempts : GetPageFails(i)
  \/ \E i \in 1..MaxAttempts : TaskResolves(i)
  \/ \E i \in 1..MaxAttempts, c \in BOOLEAN : TaskRejects(i, c)
  \/ AnimationFrame

SpecRender == Init /\ [][NextRender]_vars

\* The suggestions of the selected page: page selections, submissions and
\* votes, with the backend answering, and the answers arriving, in any order.
NextSugg ==
  \/ LoadDoc
  \/ \E k \in Range(pageKeys(doc, pdf)) : SelectPage(k)
  \/ \E u \in LineUids(pageKey) : ToggleSuggestForm(u)
  \/ \E t \in SuggestTexts : TypeSuggestion(t)
  \/ \E u \in LineUids(pageKey) : submitSuggestion(u)
  \/ \E sid \in ShownSuggestions : upvoteSuggestion(sid)
  \/ \E i \in 1..MaxRequests, ok \in BOOLEAN : ServerHandles(i, ok)
  \/ \E i \in 1..MaxRequests : ResponseArrives(i)

SpecSugg == InitSugg /\ [][NextSugg]_vars

\* A page of the document is open and its suggestions have been fetched, for
\* a visitor who is signed in or not.
InitSession ==
  /\ InitRefs
  /\ pageObj = Null
  /\ ingest = Ingested
  /\ lastPick = Null
  /\ voteRows = <<>>
  /\ DOCUMENT_ID = Some("doc")
  /\ user \in {Null, Some(U1)}
  /\ doc = TRUE
  /\ pageKey \in {K1, K2}
  /\ store = StoredRows
  /\ votes = <<>>
  /\ suggestionsByUid = Grouped(SelectRows(store, votes, pageKey))

\* The suggestion form and the vote buttons of the open page, with the
\* backend answering, and the answers arriving, in any order.
NextSession ==
  \/ \E u \in LineUids(pageKey) : ToggleSuggestForm(u)
  \/ \E t \in SuggestTexts : TypeSuggestion(t)
  \/ \E u \in LineUids(pageKey) : submitSuggestion(u)
  \/ \E sid \in ShownSuggestions : upvoteSuggestion(sid)
  \/ \E i \in 1..MaxRequests, ok \in BOOLEAN : ServerHandles(i, ok)
  \/ \E i \in 1..MaxRequests : ResponseArrives(i)

SpecSession == InitSession /\ [][NextSession]_vars

\* The PDF pane scrolled by the user while pages and zoom change: the render
\* pipeline without failures of its asynchronous steps.
NextScroll ==
  \/ LoadDoc
  \/ \E np \in NumPagesChoices : LoadPdf(np)
  \/ \E k \in Range(pageKeys(doc, pdf)) : SelectPage(k)
  \/ ZoomChange
  \/ \E s \in ScrollChoices : UserScroll(s)
  \/ \E i \in 1..MaxAttempts : GetPageResolves(i)
  \/ \E i \in 1..MaxAttempts : TaskResolves(i)
  \/ AnimationFrame

SpecScroll == Init /\ [][NextScroll]_vars

\* A signed-in author submits suggestions on the open page while the username
\* of the author's profile changes.
InitNames == InitSession /\ user = Some(U1) /\ pageKey = K1

NextNames ==
  \/ \E u \in LineUids(pageKey) : ToggleSuggestForm(u)
  \/ \E t \in SuggestTexts : TypeSuggestion(t)
  \/ \E u \in LineUids(pageKey) : submitSuggestion(u)
  \/ \E i \in 1..MaxRequests, ok \in BOOLEAN : ServerHandles(i, ok)
  \/ \E i \in 1..MaxRequests : ResponseArrives(i)
  \/ \E name \in ProfileNames : RenameProfile(U1, name)

SpecNames == InitNames /\ [][NextNames]_vars

\* The point the pointer visits while pages change: it is inside lines 0-0
\* and 1-0 of page 1 and inside line 0-0 of page 2.
PagesPoints == {<<3000, 1500>>}

\* The viewer with its pointer events while pages are selected and rendered
\* one after the other, pages without a transcription entry among them.
NextPages ==
  \/ LoadDoc
  \/ \E np \in NumPagesChoices : LoadPdf(np)
  \/ \E k \in Range(pageKeys(doc, pdf)) : SelectPage(k)
  \/ \E i \in 1..MaxAttempts : GetPageResolves(i)
  \/ \E i \in 1..MaxAttempts : TaskResolves(i)
  \/ \E pt \in PagesPoints : onHitSvgMouseMove(pt)
  \/ AnimationFrame
  \/ onHitSvgMouseLeave
  \/ \E pt \in PagesPoints : onHitSvgClick(pt)
  \/ \E u \in LineUids(pageKey) : LineMouseEnter(u)
  \/ LineMouseLeave

SpecPages == Init /\ [][NextPages]_vars

\* The page zoomed in and dragged with the mouse: presses, moves and
\* releases over the rendered page.
NextDrag ==
  \/ LoadDoc
  \/ \E np \in NumPagesChoices : LoadPdf(np)
  \/ ZoomChange
  \/ \E i \in 1..MaxAttempts : GetPageResolves(i)
  \/ \E i \in 1..MaxAttempts : TaskResolves(i)
  \/ \E pt \in PagesPoints : onHitSvgMouseMove(pt)
  \/ AnimationFrame
  \/ onPdfMouseDown
  \/ \E pt \in PagesPoints : onHitSvgClick(pt)

SpecDrag == Init /\ [][NextDrag]_vars

\* The ingest script run on a document, with every outcome of its requests.
\* The viewer is not open.
InitIngest ==
  /\ InitView
  /\ pageObj = Null
  /\ ingest \in { IngestStart(json) : json \in IngestInputs }
  /\ lastPick = Null
  /\ voteRows = <<>>
  /\ DOCUMENT_ID = Null
  /\ user = Null
  /\ store = <<>>
  /\ votes = <<>>

NextIngest ==
  \/ \E ok \in BOOLEAN : IngestInsertDocument(ok)
  \/ \E ok \in BOOLEAN : IngestInsertChunk(ok)
  \/ \E ok \in BOOLEAN : IngestDeleteDocument(ok)

SpecIngest == InitIngest /\ [][NextIngest]_vars

\* The pixel coordinates the normalization loop is handed on its own: a
\* non-finite one (Null), a negative one, ones inside the page and ones beyond
\* its right or bottom edge.
XCoords == {Null, Some(-50), Some(100), Some(300), Some(999), Some(1200)}

YCoords == {Null, Some(-50), Some(50), Some(90), Some(350), Some(450), Some(451)}

\* Page dimensions: non-finite, zero, negative and positive ones.
Widths == {Null, Some(0), Some(1000), Some(2000)}

Heights == {Null, Some(-1000), Some(400), Some(2000)}

\* The pages of one paragraph of one line, over every bbox and page size.
OneLinePages ==
  { [width |-> w, height |-> h,
     paragraphs |-> << <<Line(<<"a">>, x1, y1, x2, y2)>> >>] :
      w \in Widths, h \in Heights,
      x1 \in XCoords, y1 \in YCoords, x2 \in XCoords, y2 \in YCoords }

\* Lines of a 1000 x 2000 page: a line; a line with reversed corners inside
\* it; a line that overlaps the first at its right end; a line with a
\* non-finite coordinate.
LineChoices ==
  { Line(<<"a">>, Some(100), Some(50), Some(600), Some(90)),
    Line(<<"b">>, Some(400), Some(80), Some(200), Some(60)),
    Line(<<"c">>, Some(500), Some(50), Some(700), Some(90)),
    Line(<<"d">>, Some(100), Null, Some(600), Some(90)) }

\* Paragraphs of up to two lines.
ParagraphChoices ==
  {<<>>} \cup { <<a>> : a \in LineChoices }
         \cup { <<a, b>> : a \in LineChoices, b \in LineChoices }

\* The paragraphs of a page the loop is handed on its own.
MaxParagraphs == 2

\* The pages of up to MaxParagraphs paragraphs.
ManyLinePages ==
  { [width |-> Some(1000), height |-> Some(2000), paragraphs |-> ps] :
      ps \in UNION { [1..n -> ParagraphChoices] : n \in 0..MaxParagraphs } }

\* The points pickBoxAt is called with on its own, as (u, v) in 1/Grid: inside
\* the first and second line choices; on a corner of the second; inside the
\* first and third; on the corner the first and third share; inside none.
PickPoints ==
  {<<3000, 350>>, <<2000, 300>>, <<5500, 300>>, <<6000, 450>>, <<9000, 9000>>}

\* The state before the loop runs on a page object of its own.
InitGeometry ==
  /\ InitView
  /\ DOCUMENT_ID = Null
  /\ user = Null
  /\ store = <<>>
  /\ votes = <<>>
  /\ pageObj \in { Some(p) : p \in OneLinePages \cup ManyLinePages }
  /\ ingest = Ingested
  /\ lastPick = Null
  /\ voteRows = <<>>

\* The normalization loop and the sort, run on pageObj: the reset of the
\* lookup, the loop over the lines of the page, the sort and setHitBoxes.
NormalizePage ==
  /\ pageObj # Null
  /\ boxByUidRef' = BuildLookup(boxByUidRef, pageObj[1])
  /\ hitBoxes' = BuildIndex(hitBoxes, pageObj[1])
  /\ consoleWarn' = consoleWarn \cup LargeBoxWarnings(pageObj[1])
  /\ last' = <<"Normalize", last[1] = "Normalize">>
  /\ UNCHANGED <<viewVars, highlightVars, collapseVars, hoverVars, isDraggingRef,
                 renderVars, scroll, rafQueue, ptr, suggVars, geomVars, panelVars, profiles, ingest,
                 formVars>>

\* pickBoxAt(u, v) called on the index the loop built.
PickAt(pt) ==
  /\ pageObj # Null
  /\ last[1] = "Normalize"
  /\ lastPick' = Some(<<pt, pickBoxAt(hitBoxes, pt)>>)
  /\ UNCHANGED <<viewVars, highlightVars, indexVars, collapseVars, hoverVars,
                 isDraggingRef, renderVars, scroll, rafQueue, ptr, last, suggVars,
                 pageObj, panelVars, profiles, ingest, formVars>>

\* The Geometry Normalizer and the Region Index on their own, over pages of
\* every shape.
NextGeometry ==
  \/ NormalizePage
  \/ \E pt \in PickPoints : PickAt(pt)

SpecGeometry == InitGeometry /\ [][NextGeometry]_vars

\* ------------------------------------------------- the ranking on its own

\* Suggestions of the first line of page 1 in a table.
MaxRows == 6

\* The kinds of suggestion in the tables: <<votes, created_at>>.  Two rows of
\* one kind tie on both.
RowKinds == {<<3, 1>>, <<3, 2>>, <<1, 3>>}

Voters == <<"v1", "v2", "v3">>

\* A table of suggestions for page 1, in the order the server returns its
\* rows: rows of the given kinds for the first line and, when other is set,
\* two more for the second line.
TableOf(kinds, other) ==
  [i \in 1..Len(kinds) |->
     [SuggestionRow(i, K1, UidOf(0, 0), <<"x">>, U2, "bob")
        EXCEPT !.created_at = kinds[i][2]]]
  \o (IF other
      THEN <<[SuggestionRow(Len(kinds) + 1, K1, UidOf(1, 0), <<"y">>, U2, "bob")
                EXCEPT !.created_at = 3],
             [SuggestionRow(Len(kinds) + 2, K1, UidOf(1, 0), <<"z">>, U2, "bob")
                EXCEPT !.created_at = 2]>>
      ELSE <<>>)

\* The vote rows that give each row of the table the votes of its kind.
VotesOf(kinds, other) ==
  LET n == Len(kinds) + (IF other THEN 2 ELSE 0)
      count(i) == IF i <= Len(kinds) THEN kinds[i][1]
                  ELSE IF i = Len(kinds) + 1 THEN 1 ELSE 3
  IN SelectSeq([k \in 1..(3 * n) |-> <<((k - 1) \div 3) + 1, Voters[((k - 1) % 3) + 1]>>],
               LAMBDA p : \E v \in 1..count(p[1]) : Voters[v] = p[2])

\* Page 1 of the document is open and its suggestions have been fetched from
\* a table of the backend.
InitRank ==
  /\ InitRefs
  /\ pageObj = Null
  /\ ingest = Ingested
  /\ lastPick = Null
  /\ voteRows = <<>>
  /\ DOCUMENT_ID = Some("doc")
  /\ user = Some(U1)
  /\ doc = TRUE
  /\ pageKey = K1
  /\ \E kinds \in UNION { [1..n -> RowKinds] : n \in 0..MaxRows }, other \in BOOLEAN :
       /\ store = TableOf(kinds, other)
       /\ votes = VotesOf(kinds, other)
  /\ suggestionsByUid = Grouped(SelectRows(store, votes, pageKey))

\* The sort select of a line's suggestion panel: setSortModeByUid
SetSortMode(uid, mode) ==
  /\ doc
  /\ uid \in LineUids(pageKey)
  /\ ~collapseSuggestions
  /\ SuggestionsOf(uid) # <<>>
  /\ sortModeByUid' =
       [u \in DOMAIN sortModeByUid \cup {uid} |->
          IF u = uid THEN mode ELSE sortModeByUid[u]]
  /\ UNCHANGED <<last, viewVars, highlightVars, indexVars, collapseVars, hoverVars,
                 isDraggingRef, renderVars, scroll, rafQueue, ptr, suggVars,
                 geomVars, boardVars, formVars, profiles, ingest>>

\* The "Suggestions" button of a line's panel: setCollapsedUid
ToggleSuggestionsOf(uid) ==
  /\ doc
  /\ uid \in LineUids(pageKey)
  /\ ~collapseSuggestions
  /\ SuggestionsOf(uid) # <<>>
  /\ collapsedUid' = IF uid \in collapsedUid THEN collapsedUid \ {uid}
                     ELSE collapsedUid \cup {uid}
  /\ UNCHANGED <<last, viewVars, highlightVars, indexVars, collapseSuggestions, hoverVars,
                 isDraggingRef, renderVars, scroll, rafQueue, ptr, suggVars,
                 geomVars, panelVars, profiles, ingest, formVars>>

\* The suggestion panels of the open page: their sort selects and their
\* collapse buttons.
NextRank ==
  \/ \E u \in LineUids(pageKey), m \in {"top", "newest"} : SetSortMode(u, m)
  \/ \E u \in LineUids(pageKey) : ToggleSuggestionsOf(u)

SpecRank == InitRank /\ [][NextRank]_vars

\* ---------------------------------------------------------- the leaderboard

\* loadLeaderboard calls in one behaviour.
MaxBoardCalls == 2

\* .limit(10000) of the vote query
VoteLimit == 10000

\* .slice(0, 10)
BoardSize == 10

\* A display name is a sequence of its parts: "" is <<>>.
NameOf(str) == IF str = "" THEN <<>> ELSE <<str>>

\* String(sug?.author_username ?? "").trim()
TrimName(str) == IF str = " " THEN "" ELSE str

\* `user:${r.user_id.slice(0, 8)}`; the ids of the model have 8 characters
\* at most.
BoardFallback(u) == <<"user:", u>>

\* Entries of the vote table: rows of one vote value for a suggestion of one
\* author ("" where the suggestion has none) with one username snapshot.
VoteRun(u, snap, vote, n) ==
  [user_id |-> u, author_username |-> snap, vote |-> vote, rows |-> n]

RECURSIVE TakeRows(_, _)
\* The first n rows of a table.
TakeRows(runs, n) ==
  IF runs = <<>> \/ n = 0 THEN <<>>
  ELSE IF Head(runs).rows <= n
    THEN <<Head(runs)>> \o TakeRows(Tail(runs), n - Head(runs).rows)
    ELSE <<[Head(runs) EXCEPT !.rows = n]>>

RECURSIVE Totals(_)
\* totals, in the order its keys were added: the rows of vote 1 counted by
\* the author of their suggestion, with the first non-empty snapshot.
Totals(runs) ==
  IF runs = <<>> THEN <<>>
  ELSE LET prev == Totals(SubSeq(runs, 1, Len(runs) - 1))
           row == runs[Len(runs)]
           snap == NameOf(TrimName(row.author_username))
           at == { i \in 1..Len(prev) : prev[i].user_id = row.user_id }
       IN IF row.vote # 1 \/ row.user_id = "" THEN prev
          ELSE IF at = {}
            THEN Append(prev, [user_id |-> row.user_id, upvotes |-> row.rows,
                               username |-> snap])
            ELSE [i \in 1..Len(prev) |->
                    IF i \in at
                    THEN [prev[i] EXCEPT !.upvotes = @ + row.rows,
                                         !.username = IF @ = <<>> THEN snap ELSE @]
                    ELSE prev[i]]

\* .sort((a, b) => b.upvotes - a.upvotes), a stable sort
InsertByUpvotes(sorted, r) ==
  LET k == Cardinality({ i \in 1..Len(sorted) : sorted[i].upvotes >= r.upvotes })
  IN SubSeq(sorted, 1, k) \o <<r>> \o SubSeq(sorted, k + 1, Len(sorted))

RECURSIVE SortByUpvotes(_)
SortByUpvotes(rows) ==
  IF rows = <<>> THEN <<>>
  ELSE InsertByUpvotes(SortByUpvotes(SubSeq(rows, 1, Len(rows) - 1)), rows[Len(rows)])

\* arr before the profile lookup: the totals of a response, sorted and cut.
TopOfBoard(data) ==
  SubSeq(SortByUpvotes(Totals(data)), 1, Min(BoardSize, Len(Totals(data))))

\* arr after a profile lookup that returned rows.
WithBoardProfiles(arr) ==
  [i \in 1..Len(arr) |->
     [arr[i] EXCEPT !.username =
        IF NameOf(ProfileName(arr[i].user_id)) # <<>>
        THEN NameOf(ProfileName(arr[i].user_id))
        ELSE IF @ # <<>> THEN @ ELSE BoardFallback(arr[i].user_id)]]

\* WithFallback that leaves the names as they are.
WithFallback_Mut(arr) == arr

\* The last map of loadLeaderboard: username || `user:...`
WithFallback(arr) ==
  [i \in 1..Len(arr) |->
     [arr[i] EXCEPT !.username = IF @ # <<>> THEN @ ELSE BoardFallback(arr[i].user_id)]]

\* What the leaderboard handlers leave alone.
boardFrame ==
  <<viewVars, highlightVars, indexVars, collapseVars, hoverVars, isDraggingRef,
    renderVars, scroll, rafQueue, ptr, suggVars, geomVars, sortModeByUid, voteRows, profiles, ingest,
    formVars>>

\* openLeaderboard, and loadLeaderboard up to its first await.
openLeaderboard ==
  /\ nboard < MaxBoardCalls
  /\ showLeaderboard' = TRUE
  /\ isLoadingLeaderboard' = TRUE
  /\ boardCalls' = Append(boardCalls, [phase |-> "votes", arr |-> <<>>])
  /\ nboard' = nboard + 1
  /\ last' = <<"Leaderboard", "open">>
  /\ UNCHANGED <<boardFrame, leaderboardRows>>

\* The vote query of call i is answered, with the first rows of the table
\* or with an error: loadLeaderboard runs on to the profile lookup, or to
\* its end when there is nobody to look up.
BoardVotesArrive(i, ok) ==
  /\ i \in 1..Len(boardCalls)
  /\ boardCalls[i].phase = "votes"
  /\ LET arr == TopOfBoard(TakeRows(voteRows, VoteLimit))
     IN IF ~ok
        THEN /\ leaderboardRows' = ResetOnError(leaderboardRows)
             /\ isLoadingLeaderboard' = FALSE
             /\ boardCalls' = RemoveAt(boardCalls, i)
        ELSE IF arr = <<>>
        THEN /\ leaderboardRows' = WithFallback(arr)
             /\ isLoadingLeaderboard' = FALSE
             /\ boardCalls' = RemoveAt(boardCalls, i)
        ELSE /\ boardCalls' = [boardCalls EXCEPT ![i] = [phase |-> "profiles", arr |-> arr]]
             /\ UNCHANGED <<leaderboardRows, isLoadingLeaderboard>>
  /\ last' = <<"Leaderboard", IF ~ok THEN "failed"
                              ELSE IF TopOfBoard(TakeRows(voteRows, VoteLimit)) = <<>>
                                THEN "empty" ELSE "votes">>
  /\ UNCHANGED <<boardFrame, showLeaderboard, nboard>>

\* The profile lookup of call i is answered, with rows or with an error:
\* loadLeaderboard runs to its end.
BoardProfilesArrive(i, ok) ==
  /\ i \in 1..Len(boardCalls)
  /\ boardCalls[i].phase = "profiles"
  /\ leaderboardRows' =
       WithFallback(IF ok THEN WithBoardProfiles(boardCalls[i].arr)
                    ELSE boardCalls[i].arr)
  /\ isLoadingLeaderboard' = FALSE
  /\ boardCalls' = RemoveAt(boardCalls, i)
  /\ last' = <<"Leaderboard", IF ok THEN "profiles" ELSE "no profiles">>
  /\ UNCHANGED <<boardFrame, showLeaderboard, nboard>>

\* The authors of the vote tables besides U1 and U2; none has a profile
\* username.
Fillers == <<"f1", "f2", "f3", "f4", "f5", "f6", "f7", "f8", "f9", "f10">>

\* The votes on the suggestions of one author in a table.
RunsOf(u) ==
  { <<>>,
    <<VoteRun(u, "", 1, 1)>>,
    <<VoteRun(u, "", 1, 2), VoteRun(u, "snap", 1, 1)>>,
    <<VoteRun(u, "snap", 0, 1)>>,
    <<VoteRun(u, "snap", 2, 1), VoteRun(u, "snap", 1, 1)>>,
    <<VoteRun(u, " ", 1, VoteLimit)>> }

\* The vote tables: votes for U1's and U2's suggestions, votes on a
\* suggestion without an author, and two votes for each of some other
\* authors, before or after the rest.
VoteTables ==
  { IF first THEN fill \o rich ELSE rich \o fill :
      first \in BOOLEAN,
      rich \in { a \o b \o c : a \in RunsOf(U1), b \in RunsOf(U2),
                                c \in {<<>>, <<VoteRun("", "", 1, 1)>>} },
      fill \in { [i \in 1..n |-> VoteRun(Fillers[i], IF i % 2 = 0 THEN "snap" ELSE "", 1, 2)] :
                   n \in {0, 9, 10} } }

\* A deployment whose vote table holds rows.
InitBoard ==
  /\ InitView
  /\ pageObj = Null
  /\ ingest = Ingested
  /\ lastPick = Null
  /\ DOCUMENT_ID = Some("doc")
  /\ user = Some(U1)
  /\ store = StoredRows
  /\ votes = <<>>
  /\ voteRows \in VoteTables

\* The leaderboard dialog.
NextBoard ==
  \/ openLeaderboard
  \/ \E i \in 1..MaxBoardCalls, ok \in BOOLEAN : BoardVotesArrive(i, ok)
  \/ \E i \in 1..MaxBoardCalls, ok \in BOOLEAN : BoardProfilesArrive(i, ok)

SpecBoard == InitBoard /\ [][NextBoard]_vars

\* ------------------------------------------- the viewer while fetches fail

\* A deployment with suggestions and votes in its tables.
InitRecovery ==
  /\ InitView
  /\ pageObj = Null
  /\ ingest = Ingested
  /\ lastPick = Null
  /\ DOCUMENT_ID = Some("doc")
  /\ user = Some(U1)
  /\ store = StoredRows
  /\ votes = <<>>
  /\ voteRows = <<VoteRun(U2, "bob", 1, 2)>>

\* The page is loaded and rendered and a transcript line is pointed at,
\* while the suggestions and the leaderboard are fetched with any outcome.
NextRecovery ==
  \/ LoadDoc
  \/ \E np \in NumPagesChoices : LoadPdf(np)
  \/ \E i \in 1..MaxAttempts : GetPageResolves(i)
  \/ \E i \in 1..MaxAttempts : TaskResolves(i)
  \/ \E u \in LineUids(pageKey) : LineMouseEnter(u)
  \/ \E i \in 1..MaxRequests, ok \in BOOLEAN : ServerHandles(i, ok)
  \/ \E i \in 1..MaxRequests : ResponseArrives(i)
  \/ openLeaderboard
  \/ \E i \in 1..MaxBoardCalls, ok \in BOOLEAN : BoardVotesArrive(i, ok)
  \/ \E i \in 1..MaxBoardCalls, ok \in BOOLEAN : BoardProfilesArrive(i, ok)

SpecRecovery == InitRecovery /\ [][NextRecovery]_vars

\* ------------------------------------------------------------- properties

\* A raster task that has started, has not settled and has not been asked to
\* cancel.
InFlight(i) == attempts[i].pc = "render" /\ ~attempts[i].cancelReq

\* C1: at most one raster task is in flight on the canvas at any time, and it is
\* the task recorded in renderTaskRef: an attempt asks the task recorded for
\* the canvas to cancel before it starts and records its own.
C1_OneRenderInFlight ==
  \A i, j \in 1..Len(attempts) :
    InFlight(i) /\ InFlight(j) => i = j /\ renderTaskRef = Some(i)

\* C1, reached: the task of the latest attempt has been asked to cancel by an
\* older attempt that then started its own task, which is in flight.
C1_Witness ==
  \E i, j \in 1..Len(attempts) :
    /\ i # j
    /\ attempts[i].pc = "render" /\ attempts[i].cancelReq /\ ~attempts[i].cancelled
    /\ InFlight(j)

Settled(i) == attempts[i].pc \notin {"getPage", "render"}

\* The per-uid lookup is the one built from the page of key k.
LookupBuiltFrom(k) ==
  LET bs == NormalizeAll(getAllLinesForPage(DocPage(k)), DocPage(k))
  IN /\ DOMAIN boxByUidRef = { bs[i].uid : i \in 1..Len(bs) }
     /\ \A i \in 1..Len(bs) : boxByUidRef[bs[i].uid] = BoxOf(bs[i])

\* C2: once every render attempt has settled, none of them with a failure, the
\* Region Index is the one built from the selected page and the canvas holds
\* the raster of the selected page at the selected zoom.
C2_LastSelectionWins ==
  (/\ attempts # <<>>
   /\ \A i \in 1..Len(attempts) : Settled(i) /\ attempts[i].err = "")
  => /\ hitBoxes = IndexOf(pageKey)
     /\ LookupBuiltFrom(pageKey)
     /\ canvas # Null
     /\ canvas[1].pageKey = pageKey /\ canvas[1].zoom = zoom /\ canvas[1].drawn

\* C4: when the raster task of a superseded attempt settles, by resolving or
\* by rejecting, no alert is shown and the Region Index, the highlight state,
\* the scroll position and the pending frame callbacks are left as they are.
C4_SupersededAppliesNothing ==
  [][\A i \in 1..Len(attempts) :
       (attempts[i].cancelled /\ attempts[i].pc = "render" /\ attempts'[i].pc # "render")
       => UNCHANGED <<hitBoxes, boxByUidRef, activeId, activeSource, activeBox,
                      scroll, rafQueue, alerts>>]_vars

\* C4, reached: the raster task of a superseded attempt resolved after the
\* attempt lost the race, while an index built by another attempt is in place.
C4_Witness ==
  \E i, j \in 1..Len(attempts) :
    /\ attempts[i].cancelled /\ attempts[i].pc = "stale"
    /\ attempts[j].pc = "done" /\ hitBoxes = IndexOf(attempts[j].pageKey)

\* C5 as stated: every attempt that failed for a reason other than
\* cancellation has shown an alert.
C5_EveryFailureShown ==
  \A i \in 1..Len(attempts) : attempts[i].err # "" => i \in alerts

\* C5, amended: an attempt that fails for a reason other than cancellation
\* shows an alert, except for a raster failure of an attempt that was already
\* superseded, which is ignored like a cancellation; a failed attempt stays
\* failed and its failure starts no new attempt.
C5_FailureShownUnlessSuperseded ==
  /\ [](\A i \in 1..Len(attempts) :
          /\ attempts[i].pc = "failed" => attempts[i].err # "" /\ i \in alerts
          /\ (attempts[i].err # "" /\ i \notin alerts)
               => attempts[i].err = "raster" /\ attempts[i].cancelled)
  /\ [][\A i \in 1..Len(attempts) :
          /\ attempts[i].pc = "failed" => attempts'[i].pc = "failed"
          /\ (attempts[i].pc # "failed" /\ attempts'[i].pc = "failed")
               => Len(attempts') = Len(attempts)]_vars

\* C5, reached: one attempt's raster failure was shown and the raster failure
\* of a superseded attempt was ignored.
C5_Witness ==
  \E i, j \in 1..Len(attempts) :
    /\ attempts[i].err = "raster" /\ i \in alerts
    /\ attempts[j].err = "raster" /\ j \notin alerts /\ attempts[j].cancelled

\* No fetched suggestion belongs to a page other than the selected one.
ShowsSelectedPageOnly ==
  \A u \in DOMAIN suggestionsByUid :
    \A i \in 1..Len(suggestionsByUid[u]) : suggestionsByUid[u][i].page_key = pageKey

\* C3: once every request has settled, suggestionsByUid holds suggestions of the
\* selected page only: a response for a page that is no longer selected has
\* not been applied.
C3_StaleResponseDiscarded ==
  (nreq > 0 /\ requests = <<>>) => ShowsSelectedPageOnly

\* The highlight state the evaluation of a pointer move at the recorded point
\* leads to, by the Region Index and the highlight state of the moment.
MoveEvaluation ==
  LET picked == pickBoxAt(hitBoxes, hoverPtRef[1])
  IN IF picked # Null /\ ~(activeId = Some(picked[1].uid) /\ activeSource = "left")
     THEN <<Some(picked[1].uid), "left", LookupBox(boxByUidRef, picked[1].uid)>>
     ELSE <<activeId, activeSource, activeBox>>

\* C6: the frame that evaluates a pointer move sets the uid hit in the Region
\* Index active, with the page as source and the uid's box, when the pair
\* (activeId, activeSource) differs from it, and leaves the highlight state
\* unchanged when the pair is already that one or nothing is hit.
C6_MoveEvaluatedOnIndex ==
  [][(AnimationFrame /\ hoverRafRef # Null /\ hoverPtRef # Null)
       => <<activeId, activeSource, activeBox>>' = MoveEvaluation]_vars

NoHoverPending ==
  /\ hoverRafRef = Null
  /\ \A i \in 1..Len(rafQueue) : rafQueue[i].kind # "hover"

\* C7: a pointer leave clears activeId, activeSource and activeBox and cancels
\* the pending evaluation of a pointer move; while the pointer is off the page
\* no evaluation is pending, so none can set a highlight after the leave.
C7_LeaveClearsAndCancels ==
  /\ [][onHitSvgMouseLeave
          => /\ activeId' = Null /\ activeSource' = "none" /\ activeBox' = Null
             /\ NoHoverPending']_vars
  /\ [](ptr # <<"page">> => NoHoverPending)

\* C7, reached: the pointer has just left the page while the evaluation of a
\* pointer move was pending.
C7_Witness == last[1] = "MouseLeave" /\ last[2] /\ activeId = Null

\* C8 as stated: a click that hits uid makes it active with the page as source,
\* turns the global collapse off and sets the uid's flag to collapsed if the
\* uid was active and to expanded otherwise; other flags are unchanged and a
\* click with no hit changes nothing.
C8_ClickCollapsesIfActive ==
  [][\A pt \in Points :
       onHitSvgClick(pt) =>
         LET picked == pickBoxAt(hitBoxes, pt)
         IN IF picked = Null THEN UNCHANGED <<highlightVars, collapseVars>>
            ELSE /\ activeId' = Some(picked[1].uid)
                 /\ activeSource' = "left"
                 /\ ~collapseSuggestions'
                 /\ (picked[1].uid \in collapsedUid') = (activeId = Some(picked[1].uid))
                 /\ collapsedUid' \ {picked[1].uid} = collapsedUid \ {picked[1].uid}]_vars

\* C8, amended: on a page with a transcription, a click that hits uid makes it
\* active with the page as source and the uid's stored box, turns the global
\* collapse off, and toggles the uid's flag if the uid was active and sets it
\* to expanded otherwise; other flags are unchanged, and a click with no hit,
\* or on a page without a transcription, changes nothing.
C8_ClickTogglesIfActive ==
  [][\A pt \in Points :
       onHitSvgClick(pt) =>
         LET picked == pickBoxAt(hitBoxes, pt)
         IN IF picked = Null \/ ~HasPage(pageKey)
            THEN UNCHANGED <<highlightVars, collapseVars>>
            ELSE /\ activeId' = Some(picked[1].uid)
                 /\ activeSource' = "left"
                 /\ activeBox' = IF picked[1].uid \in DOMAIN boxByUidRef
                                 THEN Some(boxByUidRef[picked[1].uid]) ELSE Null
                 /\ ~collapseSuggestions'
                 /\ (picked[1].uid \in collapsedUid') =
                      (activeId = Some(picked[1].uid) /\ picked[1].uid \notin collapsedUid)
                 /\ collapsedUid' \ {picked[1].uid} = collapsedUid \ {picked[1].uid}]_vars

\* C8, reached: a click has hit a uid that was active and collapsed, and has
\* left it expanded.
C8_Witness ==
  /\ last[1] = "Click" /\ last[3] # Null /\ last[4] /\ last[5]
  /\ activeId = last[3] /\ last[3][1] \notin collapsedUid

\* C9: a click that hits uid, and does not follow a click at the same point,
\* leaves the uid's suggestions expanded; the click at the same point that
\* follows it leaves them collapsed.
C9_TwoClicksExpandThenCollapse ==
  [][\A pt \in Points :
       (onHitSvgClick(pt) /\ HasPage(pageKey) /\ pickBoxAt(hitBoxes, pt) # Null) =>
         LET uid == pickBoxAt(hitBoxes, pt)[1].uid
             follows == last[1] = "Click" /\ last[2] = pt /\ last[3] = Some(uid)
         IN /\ ~follows => uid \notin collapsedUid' /\ ~collapseSuggestions'
            /\ (follows /\ uid \notin collapsedUid) => uid \in collapsedUid']_vars

\* The uids of the transcript lines of the document.
AllUids == LineUids(K1) \cup LineUids(K2)

HoverCallbacks == { i \in 1..Len(rafQueue) : rafQueue[i].kind = "hover" }

\* The highlight state one hit test of the pending callback cb at the recorded
\* point leads to.
OneHitTest(cb) ==
  LET picked == IF hoverPtRef = Null THEN Null ELSE pickBoxAt(cb.hitBoxes, hoverPtRef[1])
  IN IF picked # Null /\ ~(cb.activeId = Some(picked[1].uid) /\ cb.activeSource = "left")
     THEN <<Some(picked[1].uid), "left", LookupBox(boxByUidRef, picked[1].uid)>>
     ELSE <<activeId, activeSource, activeBox>>

\* C11: pointer moves are coalesced per animation frame.  At most one frame
\* callback that evaluates a pointer move is pending, and it is the one
\* hoverRafRef names; every pointer move records its point, whether or not a
\* callback is pending, and only a pointer move or a pointer leave changes the
\* recorded point; a frame performs one hit test, at the point recorded by the
\* most recent pointer move.
C11_MovesCoalescedPerFrame ==
  /\ [](/\ Cardinality(HoverCallbacks) <= 1
        /\ (hoverRafRef # Null) <=> (HoverCallbacks # {})
        /\ \A i \in HoverCallbacks : hoverRafRef = Some(rafQueue[i].handle))
  /\ [][\A pt \in Points : onHitSvgMouseMove(pt) => hoverPtRef' = Some(pt)]_vars
  /\ [][hoverPtRef' # hoverPtRef
          => (onHitSvgMouseLeave \/ \E pt \in Points : onHitSvgMouseMove(pt))]_vars
  /\ [][(AnimationFrame /\ HoverCallbacks # {})
          => /\ <<activeId, activeSource, activeBox>>'
                  = OneHitTest(rafQueue[CHOOSE i \in HoverCallbacks : TRUE])
             /\ HoverCallbacks' = {} /\ hoverRafRef' = Null]_vars

\* C11, reached: a second pointer move arrived at another point while the
\* callback of the first was pending, and one callback is pending.
C11_Witness ==
  /\ last[1] = "MouseMove" /\ last[3]
  /\ Cardinality(HoverCallbacks) = 1
  /\ hoverPtRef = Some(<<3000, 1500>>)
  /\ hitBoxes # <<>>

\* C12: the transcript pane is scrolled only by a step that changes the pair
\* (activeId, activeSource) into one with the page as source and a line
\* active, and then to that line; a step that ends with the transcript as
\* source, or with no active line, leaves the pane where it is; and the pane
\* is scrolled only while the pointer is on the page, so the scroll moves no
\* transcript line under the pointer and sets no highlight in turn.
C12_TranscriptScrolledFromPageOnly ==
  /\ [][rightScrollTarget' # rightScrollTarget
          => /\ <<activeId, activeSource>>' # <<activeId, activeSource>>
             /\ activeSource' = "left" /\ activeId' # Null
             /\ rightScrollTarget' = activeId'
             /\ ptr' = <<"page">>]_vars
  /\ [][(activeSource' # "left" \/ activeId' = Null)
          => rightScrollTarget' = rightScrollTarget]_vars

\* C12, reached: the pane was scrolled to a line set active from the page,
\* and a later transition set another line active from the transcript
\* without scrolling the pane.
C12_Witness ==
  /\ rightScrollTarget # Null
  /\ activeSource = "right" /\ activeId # Null
  /\ activeId # rightScrollTarget
  /\ last[1] = "LineEnter"

\* Whether a box lies in the unit square.
InUnitSquare(b) ==
  /\ 0 <= b.x /\ 0 <= b.y
  /\ b.x + b.w <= Grid /\ b.y + b.h <= Grid

\* C13: every box the normalization loop produces, in the Region Index and in
\* the per-uid lookup, for any bbox and any page dimensions, satisfies
\* 0 <= x, 0 <= y, x + w <= 1 and y + h <= 1.
C13_BoxesInUnitSquare ==
  /\ \A i \in 1..Len(hitBoxes) : InUnitSquare(hitBoxes[i])
  /\ \A u \in DOMAIN boxByUidRef : InUnitSquare(boxByUidRef[u])

\* C13, reached: the box of a bbox with reversed corners, an x beyond the right
\* edge and a negative y: it starts at the top edge and ends at the right edge.
C13_Witness ==
  /\ pageObj = Some([width |-> Some(1000), height |-> Some(400),
                     paragraphs |-> << <<Line(<<"a">>, Some(1200), Some(-50),
                                              Some(300), Some(50))>> >>])
  /\ Len(hitBoxes) = 1
  /\ hitBoxes[1].x = 3000 /\ hitBoxes[1].x + hitBoxes[1].w = Grid
  /\ hitBoxes[1].y = 0 /\ hitBoxes[1].h = 1250

\* The specified algorithm, stated on the pixels: a coordinate p of a page of
\* dimension dim > 0 as a fraction of the page, clamped to [0,1], in 1/Grid.
UnitOf(p, dim) == IF p <= 0 THEN 0 ELSE IF p >= dim THEN Grid ELSE (p * Grid) \div dim

\* The low corner and the extents the specified algorithm gives a line with
\* finite coordinates on a page with positive dimensions.
SpecifiedBox(l, pageW, pageH) ==
  LET lowX == UnitOf(Min(l.bbox[1][1], l.bbox[3][1]), pageW)
      highX == UnitOf(Max(l.bbox[1][1], l.bbox[3][1]), pageW)
      lowY == UnitOf(Min(l.bbox[2][1], l.bbox[4][1]), pageH)
      highY == UnitOf(Max(l.bbox[2][1], l.bbox[4][1]), pageH)
  IN [uid |-> l.uid, x |-> lowX, y |-> lowY, w |-> highX - lowX, h |-> highY - lowY,
      area |-> (highX - lowX) * (highY - lowY)]

\* Whether the specified algorithm keeps a line: finite data, positive page
\* dimensions, a box that is not degenerate, and no size filter that applies
\* (the thresholds 0.20, 0.25, 0.98, 0.50, 0.95, 0.999 in units of 1/Grid).
SpecifiedKeeps(l, pageW, pageH) ==
  /\ \A i \in 1..4 : l.bbox[i] # Null
  /\ pageW # Null /\ pageH # Null
  /\ pageW[1] > 0 /\ pageH[1] > 0
  /\ LET b == SpecifiedBox(l, pageW[1], pageH[1])
     IN /\ b.w > 0 /\ b.h > 0
        /\ ~(b.h > 2000)
        /\ ~(b.area > 25000000)
        /\ ~(b.w > 9800 /\ b.h > 5000)
        /\ ~(b.w > 9500 /\ b.h > 9500)
        /\ ~(b.w > 9990)
        /\ ~(b.h > 9990)

\* The boxes of the Region Index with a given uid.
IndexedAs(uid) == { i \in 1..Len(hitBoxes) : hitBoxes[i].uid = uid }

\* C14: once the normalization loop has run on a page, a line of the page has
\* a box in the Region Index exactly when the specified algorithm keeps it,
\* and the box, in the index and in the lookup, is the specified one; bbox
\* (100,50,300,90) on a 1000 x 2000 page gives x 0.10, y 0.025, w 0.20, h 0.02.
C14_NormalizerAsSpecified ==
  (pageObj # Null /\ last[1] = "Normalize") =>
    LET p == pageObj[1]
        lines == getAllLinesForPage(p)
    IN /\ \A n \in 1..Len(lines) :
            IF SpecifiedKeeps(lines[n], p.width, p.height)
            THEN /\ \E i \in IndexedAs(lines[n].uid) :
                      hitBoxes[i] = SpecifiedBox(lines[n], p.width[1], p.height[1])
                 /\ LookupBox(boxByUidRef, lines[n].uid)
                      = Some(BoxOf(SpecifiedBox(lines[n], p.width[1], p.height[1])))
            ELSE /\ IndexedAs(lines[n].uid) = {}
                 /\ LookupBox(boxByUidRef, lines[n].uid) = Null
       /\ p = [width |-> Some(1000), height |-> Some(2000),
               paragraphs |-> << <<Line(<<"a">>, Some(100), Some(50),
                                        Some(300), Some(90))>> >>]
            => hitBoxes = <<[uid |-> UidOf(0, 0), x |-> 1000, y |-> 250,
                             w |-> 2000, h |-> 200, area |-> 400000]>>

\* C14, reached: the loop has run on the bbox (100,50,300,90) of a 1000 x 2000
\* page and the index holds its box.
C14_Witness ==
  /\ last[1] = "Normalize"
  /\ pageObj = Some([width |-> Some(1000), height |-> Some(2000),
                     paragraphs |-> << <<Line(<<"a">>, Some(100), Some(50),
                                              Some(300), Some(90))>> >>])
  /\ Len(hitBoxes) = 1 /\ hitBoxes[1].w = 2000 /\ hitBoxes[1].h = 200

\* C15: once the normalization loop has run on a page, every line of the page
\* that has no box in the Region Index has a diagnostic record on the console.
C15_RejectedLinesRecorded ==
  (pageObj # Null /\ last[1] = "Normalize") =>
    \A n \in 1..Len(getAllLinesForPage(pageObj[1])) :
      IndexedAs(getAllLinesForPage(pageObj[1])[n].uid) = {}
        => getAllLinesForPage(pageObj[1])[n].uid \in consoleWarn

\* The lines of a page whose geometry the specified algorithm rejects.
MalformedLines(p) ==
  { n \in 1..Len(getAllLinesForPage(p)) :
      ~SpecifiedKeeps(getAllLinesForPage(p)[n], p.width, p.height) }

\* C16: malformed geometry on a line is not fatal.  A render of a page of the
\* document that is not superseded completes without an alert, whatever the
\* geometry of its lines; the index it sets holds a box for each remaining
\* line and none for a malformed line; and the malformed line is in the
\* transcript list of the page.
C16_MalformedLineNotFatal ==
  [][\A i \in 1..Len(attempts) :
       (TaskResolves(i) /\ AppliesResult(i) /\ HasPage(attempts[i].pageKey)) =>
         LET p == DocPage(attempts[i].pageKey)
             lines == getAllLinesForPage(p)
         IN /\ attempts'[i].pc = "done"
            /\ alerts' = alerts
            /\ \A n \in 1..Len(lines) :
                 /\ n \in MalformedLines(p)
                      <=> (\A b \in 1..Len(hitBoxes') : hitBoxes'[b].uid # lines[n].uid)
                 /\ lines[n].uid \in LineUids(attempts[i].pageKey)]_vars

\* C16, reached: the render of page 2, whose second line has a non-finite
\* coordinate, is done without an alert; the index holds the box of the first
\* line only, and the transcript list holds both lines.
C16_Witness ==
  /\ pageKey = K2
  /\ \E j \in 1..Len(attempts) : attempts[j].pc = "done" /\ attempts[j].pageKey = K2
  /\ MalformedLines(Page2) = {2}
  /\ Len(hitBoxes) = 1 /\ hitBoxes[1].uid = UidOf(0, 0)
  /\ alerts = {}
  /\ LineUids(pageKey) = {UidOf(0, 0), UidOf(1, 0)}

\* C17: the Region Index holds at most one box per uid, and so does the list
\* of lines it is built from: the lines at two positions (paragraph, line) of
\* a page have two uids.
C17_OneBoxPerUid ==
  /\ \A i, j \in 1..Len(hitBoxes) : hitBoxes[i].uid = hitBoxes[j].uid => i = j
  /\ pageObj # Null =>
       \A m, n \in 1..Len(getAllLinesForPage(pageObj[1])) :
         getAllLinesForPage(pageObj[1])[m].uid = getAllLinesForPage(pageObj[1])[n].uid
           => m = n

\* C17, reached: the index of a page of two paragraphs of two lines, all four
\* with the same bbox, holds four boxes.
C17_Witness ==
  /\ pageObj # Null
  /\ Len(pageObj[1].paragraphs) = 2
  /\ Len(hitBoxes) = 4
  /\ \A i \in 1..4 : BoxOf(hitBoxes[i]) = BoxOf(hitBoxes[1])
  /\ { hitBoxes[i].uid : i \in 1..4 } = {UidOf(0, 0), UidOf(0, 1), UidOf(1, 0), UidOf(1, 1)}

\* The boxes of the Region Index that contain a point, bounds included.
Containing(pt) ==
  { i \in 1..Len(hitBoxes) :
      /\ hitBoxes[i].x <= pt[1] /\ pt[1] <= hitBoxes[i].x + hitBoxes[i].w
      /\ hitBoxes[i].y <= pt[2] /\ pt[2] <= hitBoxes[i].y + hitBoxes[i].h }

\* C18: the Region Index is in ascending order of area; a pick at a point
\* returns a box of the index that contains the point, bounds included, and no
\* box of the index that contains the point has a smaller area; it returns
\* none exactly when no box of the index contains the point.
C18_PickSmallestContaining ==
  /\ \A i, j \in 1..Len(hitBoxes) : i < j => hitBoxes[i].area <= hitBoxes[j].area
  /\ lastPick # Null =>
       IF Containing(lastPick[1][1]) = {}
       THEN lastPick[1][2] = Null
       ELSE /\ lastPick[1][2] # Null
            /\ \E i \in Containing(lastPick[1][1]) : hitBoxes[i] = lastPick[1][2][1]
            /\ \A j \in Containing(lastPick[1][1]) :
                 lastPick[1][2][1].area <= hitBoxes[j].area

\* C18, reached: a pick at a point on the corner of one box and inside a larger
\* one returned the box whose corner it is.
C18_Witness ==
  /\ lastPick # Null
  /\ lastPick[1][1] = <<2000, 300>>
  /\ lastPick[1][2] # Null
  /\ lastPick[1][2][1].x = 2000 /\ lastPick[1][2][1].y = 300
  /\ \E j \in Containing(<<2000, 300>>) : hitBoxes[j].area > lastPick[1][2][1].area

\* The boxes of the lines of a page that the specified algorithm keeps.
ValidBoxes(p) ==
  { SpecifiedBox(getAllLinesForPage(p)[n], p.width[1], p.height[1]) :
      n \in (1..Len(getAllLinesForPage(p))) \ MalformedLines(p) }

\* C19: a render that completes and is not superseded replaces the Region Index
\* and the per-uid lookup by ones that hold exactly the valid boxes of its
\* page (none when the document has no such page), so no box of the page
\* displayed before is carried over; and the step writes to nothing that was
\* built before it: the frame callbacks pending are as they were requested.
C19_IndexRebuiltFromScratch ==
  [][\A i \in 1..Len(attempts) :
       (TaskResolves(i) /\ AppliesResult(i)) =>
         LET valid == IF HasPage(attempts[i].pageKey)
                      THEN ValidBoxes(DocPage(attempts[i].pageKey))
                      ELSE {}
         IN /\ Range(hitBoxes') = valid
            /\ Len(hitBoxes') = Cardinality(valid)
            /\ DOMAIN boxByUidRef' = { b.uid : b \in valid }
            /\ \A b \in valid : boxByUidRef'[b.uid] = BoxOf(b)
            /\ SubSeq(rafQueue', 1, Len(rafQueue)) = rafQueue]_vars

\* C19, reached: page 1 was rendered, with boxes for its lines 0-0 and 1-0, and
\* then page 2, whose line 1-0 has no box: the index and the lookup hold the
\* box of line 0-0 of page 2 only.
C19_Witness ==
  /\ Len(attempts) = 2
  /\ attempts[1].pc = "done" /\ attempts[1].pageKey = K1
  /\ attempts[2].pc = "done" /\ attempts[2].pageKey = K2
  /\ Range(hitBoxes) = ValidBoxes(Page2)
  /\ DOMAIN boxByUidRef = {UidOf(0, 0)}

\* C20: normalizing the page data the Region Index was built from once more
\* yields the same index, box for box and in the same order, and the same
\* per-uid lookup: once the loop has run on the page, no step, a further run
\* of the loop on the same page among them, changes either.
C20_RenormalizingIsIdentical ==
  [][last[1] = "Normalize"
       => /\ hitBoxes' = hitBoxes
          /\ boxByUidRef' = boxByUidRef]_vars

\* C20, reached: a page with lines of equal area and a line of another area
\* has been normalized twice.
C20_Witness ==
  /\ last = <<"Normalize", TRUE>>
  /\ Len(hitBoxes) >= 3
  /\ hitBoxes[1].area = hitBoxes[2].area
  /\ hitBoxes[1].area < hitBoxes[Len(hitBoxes)].area

\* The <<votes, created_at>> of the rows of a list, in order.
KindsOf(rows) == [i \in 1..Len(rows) |-> <<rows[i].vote_count, rows[i].created_at>>]

\* Rows in the order of the "top" mode: votes descending and, among equal
\* votes, newest first.
TopOrdered(rows) ==
  \A i, j \in 1..Len(rows) :
    i < j => /\ rows[i].vote_count >= rows[j].vote_count
             /\ rows[i].vote_count = rows[j].vote_count
                  => rows[i].created_at >= rows[j].created_at

\* The rows of a line as the server returns them for the open page.
Fetched(u) == SelectSeq(SelectRows(store, votes, pageKey), LAMBDA r : r.uid = u)

\* One list holds the rows of the other, each once (the ids are distinct).
PermutationOf(a, b) == Len(a) = Len(b) /\ Range(a) = Range(b)

\* C21: in "top" mode the suggestions of a line are shown by votes descending
\* and, among equal votes, newest first; the ranked list is a permutation of
\* the line's suggestions; suggestions with 3 votes at time 1, 3 votes at time
\* 2 and 1 vote at time 3 come out second, first, third.
C21_TopModeOrder ==
  \A u \in LineUids(pageKey) :
    ModeOf(u) = "top" =>
      /\ TopOrdered(getSortedSuggestions(u))
      /\ PermutationOf(getSortedSuggestions(u), SuggestionsOf(u))
      /\ KindsOf(Fetched(u)) = <<<<3, 1>>, <<3, 2>>, <<1, 3>>>>
           => KindsOf(getSortedSuggestions(u)) = <<<<3, 2>>, <<3, 1>>, <<1, 3>>>>

\* The table listed the three suggestions of the example oldest first, and
\* the line's select was set back to "top".
C21_Witness ==
  /\ UidOf(0, 0) \in DOMAIN sortModeByUid
  /\ ModeOf(UidOf(0, 0)) = "top"
  /\ KindsOf(Fetched(UidOf(0, 0)))
       = <<<<3, 1>>, <<3, 2>>, <<1, 3>>>>
  /\ KindsOf(getSortedSuggestions(UidOf(0, 0))) = <<<<3, 2>>, <<3, 1>>, <<1, 3>>>>

\* Rows in the order of the "newest" mode: newest first.
NewestOrdered(rows) ==
  \A i, j \in 1..Len(rows) : i < j => rows[i].created_at >= rows[j].created_at

\* C22: in "newest" mode the suggestions of a line are shown newest first
\* whatever their votes, as a permutation of the line's suggestions; a step
\* changes the sort mode of one uid at most, and the order shown for a uid
\* whose own mode stays is as it was.
C22_NewestModePerUid ==
  /\ [](\A u \in LineUids(pageKey) :
          ModeOf(u) = "newest" =>
            /\ NewestOrdered(getSortedSuggestions(u))
            /\ PermutationOf(getSortedSuggestions(u), SuggestionsOf(u)))
  /\ [][/\ Cardinality({ u \in LineUids(pageKey) : ModeOf(u)' # ModeOf(u) }) <= 1
        /\ \A u \in LineUids(pageKey) :
             ModeOf(u)' = ModeOf(u) =>
               SortByMode(ModeOf(u)', SuggestionsOf(u)')
                 = SortByMode(ModeOf(u), SuggestionsOf(u))]_vars

\* The first line is in "newest" mode and shows the suggestion with the
\* fewest votes first, while the second line still shows its own by votes.
C22_Witness ==
  /\ ModeOf(UidOf(0, 0)) = "newest"
  /\ KindsOf(getSortedSuggestions(UidOf(0, 0))) = <<<<1, 3>>, <<3, 2>>, <<3, 1>>>>
  /\ ModeOf(UidOf(1, 0)) = "top"
  /\ KindsOf(getSortedSuggestions(UidOf(1, 0))) = <<<<3, 2>>, <<1, 3>>>>

\* The place of a row in a list that holds it.
PlaceIn(rows, r) == CHOOSE i \in 1..Len(rows) : rows[i] = r

\* The one order that a list has under a mode: no row comes after a row it
\* is to come before, and rows that the mode does not tell apart keep the
\* order they have in the list.
TheOrderOf(mode, rows, ranked) ==
  /\ PermutationOf(ranked, rows)
  /\ \A i, j \in 1..Len(ranked) :
       i < j =>
         /\ ~ComesBefore(mode, ranked[j], ranked[i])
         /\ ~ComesBefore(mode, ranked[i], ranked[j])
              => PlaceIn(rows, ranked[i]) < PlaceIn(rows, ranked[j])

\* C23: ranking is deterministic: the order shown for a line is the one order
\* that its suggestions and its sort mode fix, also where suggestions tie on
\* both votes and creation time, and ranking the ranked list again gives the
\* same order.
C23_RankingDeterministic ==
  \A u \in LineUids(pageKey) :
    /\ TheOrderOf(ModeOf(u), SuggestionsOf(u), getSortedSuggestions(u))
    /\ SortByMode(ModeOf(u), getSortedSuggestions(u)) = getSortedSuggestions(u)

\* The select of the first line was used, and two of the line's suggestions
\* tie on both votes and creation time.
C23_Witness ==
  /\ UidOf(0, 0) \in DOMAIN sortModeByUid
  /\ \E i, j \in 1..Len(getSortedSuggestions(UidOf(0, 0))) :
       /\ i < j
       /\ KindsOf(getSortedSuggestions(UidOf(0, 0)))[i]
            = KindsOf(getSortedSuggestions(UidOf(0, 0)))[j]
       /\ getSortedSuggestions(UidOf(0, 0))[i].id < getSortedSuggestions(UidOf(0, 0))[j].id

\* C24: under every line at most the first 5 suggestions of the ranked order
\* are rendered, while every suggestion fetched for the line is held in
\* suggestionsByUid.
C24_AtMostFiveSurfaced ==
  \A u \in LineUids(pageKey) :
    /\ Len(Surfaced(u)) <= 5
    /\ Surfaced(u) = SubSeq(getSortedSuggestions(u), 1, Len(Surfaced(u)))
    /\ PermutationOf(SuggestionsOf(u), Fetched(u))

\* The first line has six suggestions, five of them rendered, after its
\* select was used.
C24_Witness ==
  /\ UidOf(0, 0) \in DOMAIN sortModeByUid
  /\ Len(Fetched(UidOf(0, 0))) = 6
  /\ Len(SuggestionsOf(UidOf(0, 0))) = 6
  /\ Len(Surfaced(UidOf(0, 0))) = 5

RECURSIVE SumRows(_)
\* The number of rows of a table.
SumRows(runs) == IF runs = <<>> THEN 0 ELSE Head(runs).rows + SumRows(Tail(runs))

\* The rows of vote 1 on the suggestions of an author, in the whole table.
UpvotesOf(u) == SumRows(SelectSeq(voteRows, LAMBDA r : r.user_id = u /\ r.vote = 1))

\* The authors with a row of vote 1 on a suggestion of theirs.
UpvotedAuthors ==
  { voteRows[i].user_id : i \in { j \in 1..Len(voteRows) : voteRows[j].vote = 1 } } \ {""}

\* A loadLeaderboard call has just set the rows from the responses it got.
BoardLoaded == last[1] = "Leaderboard" /\ last[2] \in {"empty", "profiles", "no profiles"}

\* C25: after a load the leaderboard holds, for an author, the number of rows
\* of vote 1 on all of that author's suggestions; it has one row for an author,
\* sorted by total descending, for the 10 authors of the largest totals (for
\* all of them when they are fewer).
C25_LeaderboardTotals ==
  BoardLoaded =>
    /\ \A i \in 1..Len(leaderboardRows) :
         /\ leaderboardRows[i].user_id \in UpvotedAuthors
         /\ leaderboardRows[i].upvotes = UpvotesOf(leaderboardRows[i].user_id)
    /\ \A i, j \in 1..Len(leaderboardRows) :
         i < j => /\ leaderboardRows[i].user_id # leaderboardRows[j].user_id
                  /\ leaderboardRows[i].upvotes >= leaderboardRows[j].upvotes
    /\ Len(leaderboardRows) = Min(10, Cardinality(UpvotedAuthors))
    /\ \A u \in UpvotedAuthors \ { leaderboardRows[i].user_id : i \in 1..Len(leaderboardRows) } :
         \A i \in 1..Len(leaderboardRows) : UpvotesOf(u) <= leaderboardRows[i].upvotes

\* The first non-empty username snapshot on the rows of vote 1 that the vote
\* query returns for an author.
SnapshotOf(u) ==
  LET rs == SelectSeq(TakeRows(voteRows, VoteLimit),
                      LAMBDA r : /\ r.user_id = u
                                 /\ r.vote = 1
                                 /\ TrimName(r.author_username) # "")
  IN IF rs = <<>> THEN <<>> ELSE NameOf(TrimName(rs[1].author_username))

\* The snapshot of an author, else the fallback made of the author id.
StoredName(u) == IF SnapshotOf(u) # <<>> THEN SnapshotOf(u) ELSE BoardFallback(u)

\* C26: every leaderboard row carries a non-empty display name.  After a load
\* whose profile lookup returned rows it is the profile username of the
\* author where that is non-empty, else the author's snapshot where one is
\* non-empty, else "user:" with the prefix of the author id; after a load
\* whose profile lookup failed it is the snapshot, else that fallback.
C26_LeaderboardNames ==
  \A i \in 1..Len(leaderboardRows) :
    LET r == leaderboardRows[i]
    IN /\ r.username # <<>>
       /\ (last[1] = "Leaderboard" /\ last[2] = "profiles") =>
            r.username = IF ProfileName(r.user_id) # ""
                         THEN <<ProfileName(r.user_id)>> ELSE StoredName(r.user_id)
       /\ (last[1] = "Leaderboard" /\ last[2] = "no profiles") =>
            r.username = StoredName(r.user_id)

\* A load whose profile lookup failed has set rows, one named by a snapshot
\* and one by the fallback, for an author who has a profile username too.
C26_Witness ==
  /\ last = <<"Leaderboard", "no profiles">>
  /\ \E i, j, k \in 1..Len(leaderboardRows) :
       /\ leaderboardRows[i].username = <<"snap">>
       /\ leaderboardRows[j].username = BoardFallback(leaderboardRows[j].user_id)
       /\ ProfileName(leaderboardRows[k].user_id) # ""

\* The vote rows of a voter for a suggestion.
VoteRowsOf(vs, sid, u) == Len(SelectSeq(vs, LAMBDA v : v = <<sid, u>>))

\* C27: voting is idempotent: the vote table never holds two rows for one
\* suggestion and voter, so that a suggestion's count is the number of its
\* voters, and when the backend has carried out an upvote, alone or next to
\* others still in flight, it holds exactly one row for that suggestion and
\* the signed-in voter.
C27_VotingIdempotent ==
  /\ [](\A i \in 1..Len(votes) :
          /\ VoteRowsOf(votes, votes[i][1], votes[i][2]) = 1
          /\ VoteCount(votes, votes[i][1])
               = Cardinality({ v[2] : v \in { w \in Range(votes) : w[1] = votes[i][1] } }))
  /\ [][\A i \in 1..Len(requests) :
          (/\ requests[i].kind = "upsert"
           /\ requests[i].phase = "sent"
           /\ requests' = [requests EXCEPT ![i].phase = "answered", ![i].ok = TRUE,
                                          ![i].rows = <<>>])
            => VoteRowsOf(votes', requests[i].sid, user[1]) = 1]_vars

\* The backend has carried out two upvotes of the signed-in user for one
\* suggestion, the second one sent before the first was answered.
C27_Witness ==
  \E i, j \in 1..Len(requests) :
    /\ i < j
    /\ requests[i].kind = "upsert" /\ requests[j].kind = "upsert"
    /\ requests[i].sid = requests[j].sid
    /\ requests[i].phase = "answered" /\ requests[i].ok
    /\ requests[j].phase = "answered" /\ requests[j].ok
    /\ VoteRowsOf(votes, requests[i].sid, user[1]) = 1

\* C28: when the fetch of the suggestions fails the suggestions are reset to
\* none, and when the fetch of the leaderboard fails the leaderboard is reset
\* to no rows; either way the loading flag of that fetch is cleared, and the
\* selected page, the Region Index and the highlight are as they were.
C28_FetchFailureRecovered ==
  /\ [](/\ last = <<"Backend", "failed">> =>
             suggestionsByUid = <<>> /\ ~isLoadingSuggestions
        /\ last = <<"Leaderboard", "failed">> =>
             leaderboardRows = <<>> /\ ~isLoadingLeaderboard)
  /\ [][(last' = <<"Backend", "failed">> \/ last' = <<"Leaderboard", "failed">>) =>
          UNCHANGED <<doc, pdf, pageKey, zoom, hitBoxes, boxByUidRef, activeId,
                      activeSource, activeBox>>]_vars

\* The fetch of the suggestions has failed, after a fetch of the leaderboard
\* had, on a rendered page with a line highlighted.
C28_Witness ==
  /\ last = <<"Backend", "failed">>
  /\ suggestionsByUid = <<>>
  /\ pageKey = K1
  /\ hitBoxes # <<>>
  /\ activeBox # Null
  /\ nboard > 0
  /\ boardCalls = <<>>
  /\ leaderboardRows = <<>>

\* What a rejected submission or vote leaves alone: the requests, the
\* fetched suggestions, the form and the tables.
RejectedFrame ==
  UNCHANGED <<requests, nreq, suggestionsByUid, openSuggestUid, suggestText, votes, store>>

\* The text of the form is, after its white space is collapsed and trimmed,
\* the transcription of the form's line after the same.
SameAsTranscription ==
  /\ openSuggestUid # Null
  /\ Trim(Squeeze(suggestText)) = Trim(Squeeze(OriginalText(pageKey, openSuggestUid[1])))

\* C29: a submission while signed out, a submission of a text equal to the
\* line's transcription, and a vote while signed out each show their message
\* and issue no request, and leave the suggestions, the form with its text
\* and the tables as they were.
C29_RejectedBeforeRequest ==
  [][/\ (last' = <<"Submit">> /\ user = Null) =>
          "Please sign in to suggest edits." \in messages' /\ RejectedFrame
     /\ (last' = <<"Upvote">> /\ user = Null) =>
          "Please sign in to vote." \in messages' /\ RejectedFrame
     /\ (last' = <<"Submit">> /\ user # Null /\ SameAsTranscription) =>
          /\ "Your suggestion is identical to the current transcription." \in messages'
          /\ RejectedFrame]_vars

\* C29, amended: a submission while signed out, a submission of a text that
\* is not blank and equals the line's transcription once white space is
\* collapsed and trimmed in both, and a vote while signed out each show their
\* message and issue no request, and leave the suggestions, the form with its
\* text and the tables as they were.
C29_RejectedBeforeRequest_Amended ==
  [][/\ (last' = <<"Submit">> /\ user = Null) =>
          "Please sign in to suggest edits." \in messages' /\ RejectedFrame
     /\ (last' = <<"Upvote">> /\ user = Null) =>
          "Please sign in to vote." \in messages' /\ RejectedFrame
     /\ (/\ last' = <<"Submit">>
         /\ user # Null
         /\ SameAsTranscription
         /\ Trim(Squeeze(suggestText)) # <<>>) =>
          /\ "Your suggestion is identical to the current transcription." \in messages'
          /\ RejectedFrame]_vars

\* The signed-in user has submitted a typed text that is the line's
\* transcription but for white space, and was told so; nothing was requested.
C29_Witness ==
  /\ last = <<"Submit">>
  /\ user # Null
  /\ suggestText = <<" ", "a", " ">>
  /\ SameAsTranscription
  /\ messages = {"Your suggestion is identical to the current transcription."}
  /\ nreq = 0

\* Page keys in the order of their page numbers, the keys without a page
\* number after every key that has one.
NumberedFirst(ks) ==
  \A i, j \in 1..Len(ks) :
    i < j => /\ pageKeyToNumber(ks[i]) = Null => pageKeyToNumber(ks[j]) = Null
             /\ (pageKeyToNumber(ks[i]) # Null /\ pageKeyToNumber(ks[j]) # Null)
                  => pageKeyToNumber(ks[i])[1] <= pageKeyToNumber(ks[j])[1]

\* C30: the page list of the viewer and the order in which the ingest walks
\* the pages are in page-number order, and a key without a page number is
\* after every numbered key or not in the list.
C30_NumberlessKeysLast ==
  /\ NumberedFirst(pageKeys(doc, pdf))
  /\ NumberedFirst(IngestOrder)

\* floor(offset * newDim / oldDim) without a division: the q with
\* q * oldDim <= offset * newDim < (q + 1) * oldDim.
Proportional(offset, oldDim, newDim) ==
  CHOOSE q \in 0..(offset * newDim) :
    q * oldDim <= offset * newDim /\ offset * newDim < (q + 1) * oldDim

\* The scroll callbacks a step requests.
ScrollRequested ==
  { rafQueue'[j] : j \in { j \in 1..Len(rafQueue') :
       rafQueue'[j].kind = "scroll" /\ rafQueue'[j] \notin Range(rafQueue) } }

\* Attempt i completes in this step: its raster resolved and it was not
\* superseded.
Completes(i) ==
  /\ i \in 1..Len(attempts)
  /\ attempts[i].pc = "render"
  /\ attempts'[i].pc = "done"

\* C31: a render that completes without being superseded leaves the scroll
\* offsets alone in its own step and requests one frame callback that holds
\* the offsets and scroll dimensions read before the canvas was resized; the
\* frame that runs the callback sets each offset to the old offset times the
\* new scroll dimension over the old one, rounded down and not negative.
C31_ScrollRestoredProportionally ==
  /\ [][\A i \in 1..MaxAttempts :
          Completes(i) =>
            /\ scroll' = scroll
            /\ \E cb \in ScrollRequested :
                 /\ ScrollRequested = {cb}
                 /\ cb.prev = attempts[i].prevScroll]_vars
  /\ [][\A j \in 1..Len(rafQueue) :
          (/\ rafQueue[j].kind = "scroll"
           /\ rafQueue' = <<>>
           /\ \A l \in (j + 1)..Len(rafQueue) : rafQueue[l].kind # "scroll")
          => LET prev == rafQueue[j].prev[1]
             IN /\ scroll'[1] = Proportional(prev[1], prev[3], ScrollDims(canvas)[1])
                /\ scroll'[2] = Proportional(prev[2], prev[4], ScrollDims(canvas)[2])
                /\ scroll'[1] >= 0 /\ scroll'[2] >= 0]_vars

\* The suggestions the viewer holds for the lines of the page.
FetchedRows == UNION { Range(suggestionsByUid[u]) : u \in DOMAIN suggestionsByUid }

\* C32: the name shown for a fetched suggestion whose username snapshot is not
\* empty is the snapshot that the suggestions table holds for it; the table
\* never rewrites a snapshot; and the name shown for such a suggestion is the
\* same after every step, a change of the author's profile username and the
\* arrival of the changed name in the display-name cache included.
C32_AuthorNameIsSnapshot ==
  /\ [](\A s \in FetchedRows :
          s.author_username # "" =>
            /\ s.id \in 1..Len(store)
            /\ DisplayedAuthor(s) = <<store[s.id].author_username>>)
  /\ [][\A i \in 1..Len(store) :
          /\ i <= Len(store')
          /\ store'[i].author_username = store[i].author_username]_vars
  /\ [][\A s \in FetchedRows :
          (s.author_username # "" /\ \E t \in FetchedRows' : t.id = s.id)
            => \A t \in FetchedRows' :
                 t.id = s.id => DisplayedAuthor(t)' = DisplayedAuthor(s)]_vars

\* A suggestion of the signed-in author is shown with its snapshot while the
\* profile has been given another username and the cache holds a name that
\* is not the snapshot.
C32_Witness ==
  \E s \in FetchedRows :
    /\ s.user_id = U1
    /\ s.author_username # ""
    /\ profiles[U1] # InitialProfiles[U1]
    /\ U1 \in DOMAIN usernameByUserId
    /\ usernameByUserId[U1] # s.author_username
    /\ last = <<"Rename">>

\* The last render attempt that completed, if there is one: attempts complete
\* in the order in which they started.
LastDone == { i \in 1..Len(attempts) :
                /\ attempts[i].pc = "done"
                /\ \A j \in (i + 1)..Len(attempts) : attempts[j].pc # "done" }

\* The last render that completed was of a page without a transcription entry.
NoTranscriptionShown == \E i \in LastDone : ~HasPage(attempts[i].pageKey)

DocKeysFor(n) == { k \in Range(DocKeys) : pageKeyToNumber(k) = Some(n) }

\* C34: once the document and the PDF are loaded, the page list has numPages
\* entries, the n-th with page number n: a key of the document with that
\* number if there is one, the PDF-only key of n otherwise; and the selected
\* page key is in the page list whenever the list is not empty.
C34_PageListMatchesPdf ==
  LET keys == pageKeys(doc, pdf)
  IN /\ (doc /\ pdf # Null) =>
          /\ Len(keys) = pdf[1]
          /\ \A n \in 1..Len(keys) :
               /\ pageKeyToNumber(keys[n]) = Some(n)
               /\ DocKeysFor(n) # {} => keys[n] \in DocKeysFor(n)
               /\ DocKeysFor(n) = {} => keys[n] = PdfOnlyKey(n)
     /\ keys # <<>> => pageKey \in Range(keys)

\* A PDF longer than the document is loaded and its last page, which the
\* document has no key for, is selected.
C34_Witness ==
  /\ doc /\ pdf # Null
  /\ DocKeysFor(pdf[1]) = {}
  /\ pageKey = PdfOnlyKey(pdf[1])

\* C35: the click that ends a drag-pan (a press on the page while zoomed in,
\* a move of the pressed mouse, the release) changes neither the active
\* line nor a collapsed flag.
C35_DragClickIgnored ==
  [][(/\ isDraggingRef
      /\ zoom > 10000
      /\ last[1] = "MouseMove"
      /\ last'[1] = "Click")
     => UNCHANGED <<activeId, activeSource, activeBox, collapseVars>>]_vars

\* The ingest script has exited with an error.
IngestFailed == ingest.pc = "exit" /\ ingest.code = Some(1)

\* C36: a failed ingest run leaves no orphan documents row: when the script
\* has exited with an error, the documents row of the run is not in the
\* documents table (it was never inserted, or it has been deleted).
C36_NoOrphanAfterFailure == IngestFailed => ~ingest.document

\* C37: in every reachable state of the Highlight Synchronizer, activeId is
\* none if and only if activeSource is none.
C37_ActiveIdIffSource == (activeId = Null) <=> (activeSource = "none")

\* The displayed highlight box is the box of the active line in the current
\* per-uid box lookup.
BoxIsCurrent ==
  activeBox # Null =>
    /\ activeId # Null
    /\ activeId[1] \in DOMAIN boxByUidRef
    /\ activeBox = Some(boxByUidRef[activeId[1]])

\* C38: in every reachable state, if activeBox is not none then activeId is
\* not none and activeBox is the box stored for activeId in the current
\* per-uid box lookup; and when a render attempt completes and replaces the
\* lookup, no highlight box is displayed any more.
C38_ActiveBoxIsCurrent ==
  /\ []BoxIsCurrent
  /\ [][(\E i \in 1..Len(attempts) :
            /\ attempts[i].pc = "render"
            /\ attempts' = [attempts EXCEPT ![i].pc = "done", ![i].prevScroll = Null])
        => activeBox' = Null]_vars

\* A second page's render has completed and a line is highlighted whose uid
\* had another box in the index of the page rendered before.
C38_Witness ==
  /\ Len(attempts) = 2
  /\ attempts[1].pc = "done"
  /\ attempts[2].pc = "done"
  /\ HasPage(attempts[1].pageKey)
  /\ attempts[1].pageKey # attempts[2].pageKey
  /\ activeBox # Null
  /\ activeId # Null
  /\ activeId[1] \in DOMAIN BoxLookup(IndexOf(attempts[1].pageKey))
  /\ activeBox # Some(BoxLookup(IndexOf(attempts[1].pageKey))[activeId[1]])

\* The per-uid boxes of the Region Index of the selected page: none for a page
\* without a transcription entry.
SelectedPageBoxes == IF HasPage(pageKey) THEN BoxLookup(IndexOf(pageKey)) ELSE <<>>

\* C39: hit-testing and highlight lookup never use boxes of a page other than
\* the selected one: whenever a pointer move's frame callback, a click or a
\* transcript line event sets activeId or activeBox, a uid picked on the page
\* and the box displayed come from the Region Index of the selected pageKey,
\* also while the render of a newly selected page is in progress.
C39_BoxesOfSelectedPage ==
  [][(/\ last'[1] \in {"AnimationFrame", "Click", "LineEnter", "LineClick"}
      /\ <<activeId', activeBox'>> # <<activeId, activeBox>>
      /\ activeId' # Null)
     => /\ activeSource' = "left" => activeId'[1] \in DOMAIN SelectedPageBoxes
        /\ activeBox' # Null =>
             /\ activeId'[1] \in DOMAIN SelectedPageBoxes
             /\ activeBox' = Some(SelectedPageBoxes[activeId'[1]])]_vars

\* A call of loadSuggestionsForPage is between its first await and its
\* finally block: it awaits the select of the suggestions or of the profiles.
FetchInFlight == \E i \in 1..Len(requests) : requests[i].kind \in {"select", "profiles"}

\* C40: the suggestions loading flag is true whenever at least one suggestion
\* fetch is in flight and false whenever none is, for any interleaving of
\* overlapping fetches started by page changes, submissions and votes.
C40_LoadingIffFetchInFlight == isLoadingSuggestions <=> FetchInFlight

====
